---- MODULE Spec2Model ----
(***************************************************************************)
(* waybar-vd: the virtual-desktop state store (src/src/vdesk.rs), the      *)
(* Hyprland IPC client with its per-listen retry loop                      *)
(* (src/src/hyprland.rs), the resilient monitor task (src/src/monitor.rs)  *)
(* and the GUI-side reader (src/src/lib.rs), as one state machine.         *)
(*                                                                         *)
(* The monitor task is one async future.  Its program counter `pc` names   *)
(* the await at which it is suspended; one action runs it from one await   *)
(* to the next.  The compositor, the socket files, the renderer's end of   *)
(* the update channel and the host that calls update()/drop are the        *)
(* environment: their answers are drawn with \E.                           *)
(***************************************************************************)
EXTENDS Integers, Sequences, FiniteSets, TLC

\* ------------------------------------------------------------------ bounds
\* Desktop ids 1..MaxDesk appear in printstate payloads and get a name from
\* printdesk; printdesk for a higher id answers without a name or fails.
MaxDesk == 1
\* A printstate payload has at most MaxLines lines.
MaxLines == 2
\* The configured retry_max is 1 or MaxRetryMax.
MaxRetryMax == 5
\* The count of consecutive failed refreshes saturates here.
MaxApplyFails == 3
\* listen_for_events is followed up to its MaxAttempt-th failed attempt.
MaxAttempt == 50
\* The widget manager is given desktops with ids 1..MaxWidgetId.
MaxWidgetId == 3
\* Where the content of a desktop varies from call to call, the ids are
\* 1..MaxContentId.
MaxContentId == 2
\* The payloads parsed into the store describe desktops with ids
\* 1..MaxStoreId.
MaxStoreId == 2
\* An event stream delivers at most MaxStreamLen lines before it ends.
MaxStreamLen == 2
\* An instance signature is up to MaxSigPrefix characters of any kind
\* followed by a run of one letter.
MaxSigPrefix == 2

\* ------------------------------------------------------- program constants
\* monitor.rs:23  const MAX_CONSECUTIVE_FAILURES: u32 = 5
MAX_CONSECUTIVE_FAILURES == 5
\* vdesk.rs:60  for vdesk_id in 1..=5
LAST_NAME_QUERY == 5
\* config.rs:93-95  fn default_retry_base_delay_ms() -> u64 { 500 }
DEFAULT_RETRY_BASE_DELAY_MS == 500
\* lib.rs:780  let base_delay = 1000u64 (a configured, non-default base)
OTHER_BASE_DELAY_MS == 1000
\* hyprland.rs:90  const MAX_DELAY_MS: u64 = 30000
MAX_DELAY_MS == 30000

VARIABLES
    pc,                   \* await at which the monitor task is suspended
    consecutive_failures, \* monitor.rs:22, local of resilient_monitor_loop
    retry_count,          \* hyprland.rs:87, local of listen_for_events
    retry_max,            \* ModuleConfig.retry_max, fixed at construction
    retry_base_delay_ms,  \* ModuleConfig.retry_base_delay_ms, likewise
    recovery_delay,       \* ms of the recovery delay being slept (monitor.rs:50),
                          \* 0 when the loop is not in it
    conn,                 \* an event-socket stream is open (hyprland.rs:126)
    name_i,               \* vdesk_id of the running printdesk query (vdesk.rs:60)
    lock,                 \* holder of Arc<Mutex<VirtualDesktopsManager>>
    virtual_desktops,     \* VirtualDesktopsManager.virtual_desktops
    mgr_ipc,              \* VirtualDesktopsManager.ipc.is_some()
    chan,                 \* the message in flight on the mpsc update channel,
                          \* <<>> if none: the channel is created outside
                          \* src/ and is given its least capacity, one slot
    rx_alive,             \* the renderer still holds the channel's receiver
    shutdown,             \* the oneshot shutdown signal has been sent
    gui,                  \* GUI thread: "idle" or "waiting" for the lock
    committed,            \* the store when a refresh last ran to its end
    resp,                 \* what the printstate payload of the running refresh
                          \* held: the ids of its records, and whether it had
                          \* a header line that does not parse
    named,                \* ids whose printdesk reply carried a name, this refresh
    apply_fails,          \* consecutive failed refreshes (saturating)
    last_error,           \* `e` of the Err arm, monitor.rs:37-64, while in scope
    signal_in_backoff,    \* the shutdown signal was sent while the monitor task
                          \* was suspended in a backoff sleep
    backoff,              \* the locals of listen_for_events' Err arm
                          \* (hyprland.rs:97-119), followed on their own
    wm,                   \* WidgetManager: container (the GTK box's children, in
                          \* order), widgets, widget_order
    wlast,                \* the last update_widgets call: its argument and the
                          \* GTK operations it performed
    disp,                 \* the store and the display followed on their own:
                          \* the payload last parsed, the target order of the
                          \* last update_display
    ipc,                  \* HyprlandIPC::with_config followed step by step
    listen,               \* try_listen_for_events followed line by line
    conf,                 \* the last call of a function of config.rs: its
                          \* arguments and its result
    timers,               \* PerformanceMetrics and its WidgetUpdateTimers
    arith,                \* the last backoff product computed in u64
    session               \* the compositor and a monitor session reading its
                          \* event socket

monitorVars ==
        <<pc, consecutive_failures, retry_count, retry_max, retry_base_delay_ms,
          recovery_delay, conn, name_i, lock,
          virtual_desktops, mgr_ipc, chan, rx_alive, shutdown, gui,
          committed, resp, named, apply_fails, last_error, signal_in_backoff>>

backoffVars == <<backoff>>

widgetVars == <<wm, wlast>>

displayVars == <<disp>>

ipcVars == <<ipc>>

streamVars == <<listen>>

extraVars == <<conf, timers, arith, session>>

vars ==
    <<monitorVars, backoffVars, widgetVars, displayVars, ipcVars, streamVars,
      extraVars>>

\* ------------------------------------------------------------ data model
\* VirtualDesktop::new(id, name): every other field at its default.
VirtualDesktop_new(id, name) ==
    [id |-> id, name |-> name, focused |-> FALSE, populated |-> FALSE,
     window_count |-> 0]

\* HashMap::new()
EmptyMap == [x \in {} |-> 0]

\* HashMap::insert(id, vd)
MapInsert(m, id, vd) ==
    [x \in (DOMAIN m) \cup {id} |-> IF x = id THEN vd ELSE m[x]]

\* One line of a printstate payload, by what parse_virtual_desktop_state
\* can tell about it after trim():
\*   "desk"      starts with "Virtual desk ", has ':' and a u32 before it
\*   "baddesk"   starts with "Virtual desk " but no ':' or no u32 id
\*   "focused"   starts with "Focused: ";   flag = ends_with("true")
\*   "populated" starts with "Populated: "; flag = ends_with("true")
\*   "windows"   starts with "Windows: ";   num = the count, -1 if not a number
\*   "other"     anything else (the "Virtual desks" title, blank lines, JSON)
Line(kind, id, name, flag, num) ==
    [kind |-> kind, id |-> id, name |-> name, flag |-> flag, num |-> num]

DeskLine(id, name) == Line("desk", id, name, FALSE, 0)
BadDeskLine == Line("baddesk", 0, "", FALSE, 0)
FocusedLine(b) == Line("focused", 0, "", b, 0)
PopulatedLine(b) == Line("populated", 0, "", b, 0)
WindowsLine(n) == Line("windows", 0, "", FALSE, n)
OtherLine == Line("other", 0, "", FALSE, 0)

\* The lines the compositor's printstate answers are built from.
PayloadName == "a"
Lines ==
    {DeskLine(i, PayloadName) : i \in 1..MaxDesk}
        \cup {BadDeskLine, OtherLine}

SeqsUpTo(S, n) == UNION {[1..k -> S] : k \in 0..n}

Payloads == SeqsUpTo(Lines, MaxLines)

\* The ids of the records a payload describes, read off its header lines.
PayloadIds(state) ==
    {state[i].id : i \in {j \in 1..Len(state) : state[j].kind = "desk"}}

\* A payload with a "Virtual desk " header that has no ':' or no u32 id.
Malformed(state) ==
    \E i \in 1..Len(state) : state[i].kind = "baddesk"

PayloadSummary(state) ==
    [ids |-> PayloadIds(state), malformed |-> Malformed(state)]

NoPayload == [ids |-> {}, malformed |-> FALSE]

\* ------------------------------------------------ vdesk.rs: pure functions
\* parse_virtual_desktop_state, lines 98-100 and 127-129: insert the desktop
\* being built, if there is one.  cur is <<>> (None) or <<vd>> (Some(vd)).
SaveCurrent(m, cur) ==
    IF cur = <<>> THEN m ELSE MapInsert(m, cur[1].id, cur[1])

\* The body of the loop over lines (vdesk.rs:93-124) on the parser state
\* st = [map, cur].
ParseLine(st, line) ==
    CASE line.kind = "desk" ->
            [map |-> SaveCurrent(st.map, st.cur),
             cur |-> <<VirtualDesktop_new(line.id, line.name)>>]
      [] line.kind = "baddesk" ->
            [map |-> SaveCurrent(st.map, st.cur), cur |-> <<>>]
      [] line.kind = "focused" /\ st.cur # <<>> ->
            [st EXCEPT !.cur = <<[st.cur[1] EXCEPT !.focused = line.flag]>>]
      [] line.kind = "populated" /\ st.cur # <<>> ->
            [st EXCEPT !.cur = <<[st.cur[1] EXCEPT !.populated = line.flag]>>]
      [] line.kind = "windows" /\ st.cur # <<>> ->
            [st EXCEPT !.cur =
                <<[st.cur[1] EXCEPT
                     !.window_count = IF line.num >= 0 THEN line.num ELSE 0]>>]
      [] OTHER -> st

RECURSIVE ParseFrom(_, _, _)
ParseFrom(state, i, st) ==
    IF i > Len(state) THEN st
    ELSE ParseFrom(state, i + 1, ParseLine(st, state[i]))

\* vdesk.rs:86  self.virtual_desktops.clear()
ClearedMap(m) == EmptyMap

\* parse_virtual_desktop_state(&mut self, state) on the map m: the Result
\* (ok) and the map it leaves.  The map is cleared first; every path ends in
\* Ok(()) (vdesk.rs:131).
parse_virtual_desktop_state(m, state) ==
    LET st == ParseFrom(state, 1, [map |-> ClearedMap(m), cur |-> <<>>])
    IN  [ok |-> TRUE, map |-> SaveCurrent(st.map, st.cur)]

\* A printdesk answer as update_state sees it: Err, or Ok(text) where text
\* has a ':' followed by a name, or has none.
ErrReply == [ok |-> FALSE, colon |-> FALSE, name |-> ""]
PlainReply == [ok |-> TRUE, colon |-> FALSE, name |-> ""]
NamedReply(n) == [ok |-> TRUE, colon |-> TRUE, name |-> n]

ReplyName == "n"
NameReplies(id) ==
    {ErrReply, PlainReply}
        \cup (IF id <= MaxDesk THEN {NamedReply(ReplyName)} ELSE {})

\* A name query that renames a stored record and never creates one.
update_name_existing_only(m, vdesk_id, info) ==
    IF info.colon /\ vdesk_id \in DOMAIN m
    THEN [m EXCEPT ![vdesk_id].name = info.name]
    ELSE m

\* update_virtual_desktop_name(&mut self, vdesk_id, vdesk_info) on the map m.
update_virtual_desktop_name(m, vdesk_id, info) ==
    IF info.colon
    THEN IF vdesk_id \in DOMAIN m
         THEN [m EXCEPT ![vdesk_id].name = info.name]
         ELSE MapInsert(m, vdesk_id, VirtualDesktop_new(vdesk_id, info.name))
    ELSE m

\* One turn of the loop `for vdesk_id in 1..=5` (vdesk.rs:60-69): an Err
\* answer is skipped.
ApplyNameReply(m, vdesk_id, info) ==
    IF info.ok THEN update_virtual_desktop_name(m, vdesk_id, info) ELSE m

RECURSIVE SortedIds(_)
SortedIds(S) ==
    IF S = {} THEN <<>>
    ELSE LET lo == CHOOSE x \in S : \A y \in S : x <= y
         IN  <<lo>> \o SortedIds(S \ {lo})

\* A snapshot in descending order of id.
get_virtual_desktops_descending(m) ==
    LET ids == SortedIds({m[k].id : k \in DOMAIN m})
        rec(i) == CHOOSE v \in {m[k] : k \in DOMAIN m} : v.id = i
    IN  [j \in 1..Len(ids) |-> rec(ids[Len(ids) + 1 - j])]

\* get_virtual_desktops(&self): clones of all values, sorted by id.
get_virtual_desktops(m) ==
    LET ids == SortedIds({m[k].id : k \in DOMAIN m})
        rec(i) == CHOOSE v \in {m[k] : k \in DOMAIN m} : v.id = i
    IN  [j \in 1..Len(ids) |-> rec(ids[j])]

\* ----------------------------------------------------------- construction
\* What VirtualDesktopsManager::initialize (vdesk.rs:39-43), run by
\* VirtualDesktopsModule::init (lib.rs:309-323), can leave in the store:
\* nothing (HyprlandIPC::new or the printstate command failed) or the result
\* of one whole update_state.
RECURSIVE ApplyNamesFrom(_, _, _)
ApplyNamesFrom(m, vdesk_id, replies) ==
    IF vdesk_id > LAST_NAME_QUERY THEN m
    ELSE ApplyNamesFrom(ApplyNameReply(m, vdesk_id, replies[vdesk_id]),
                        vdesk_id + 1, replies)

ReplyFns ==
    {f \in [1..LAST_NAME_QUERY ->
                {ErrReply, PlainReply, NamedReply(ReplyName)}] :
        \A i \in 1..LAST_NAME_QUERY : f[i] \in NameReplies(i)}

InitStores ==
    {ApplyNamesFrom(parse_virtual_desktop_state(EmptyMap, p).map, 1, f) :
        p \in Payloads, f \in ReplyFns}

\* listen_for_events has not failed yet.
NoBackoff ==
    [retry_count |-> 0, base_delay |-> 0, jitter |-> 0, delay_ms |-> 0,
     slept |-> FALSE]

\* ModuleConfig as the widget manager reads it: format is the format string
\* cut at its placeholders.
WidgetConfig(format, show_window_count, show_empty, sort_by) ==
    [format |-> format, format_icons |-> [x \in {} |-> ""],
     show_window_count |-> show_window_count, show_empty |-> show_empty,
     sort_by |-> sort_by]

\* WidgetManager::new (widgets.rs:139-148)
WidgetManager_new(config) ==
    [container |-> <<>>, widgets |-> EmptyMap, widget_order |-> <<>>,
     config |-> config]

\* No GTK operation: the ids whose widget was removed, created, had its
\* label, tooltip or focus classes set, the ids update_if_changed returned
\* true for, the (id, position) pairs given to reorder_child, and the kinds
\* of the operations in the order they were made.
NoOps ==
    [removed |-> {}, created |-> {}, set_text |-> {}, set_tooltip |-> {},
     set_focus |-> {}, updated |-> {}, moved |-> {}, log |-> <<>>]

\* No payload parsed and no update_display made.
NoDisplay == [payload |-> <<>>, parsed |-> FALSE, shown |-> FALSE, target |-> <<>>]

\* with_config has not been called.
NoIpc ==
    [pc |-> "start", sig |-> <<>>, dir |-> <<>>, paths |-> <<>>, fs |-> {},
     checked |-> {}, err |-> "", client |-> <<>>]

\* try_listen_for_events has not been called.
NoListen ==
    [pc |-> "idle", stream |-> <<>>, end |-> "eof", seen |-> <<>>,
     result |-> <<>>, err |-> "", effects |-> {}]

\* update_widgets has not been called.
NoCall ==
    [called |-> FALSE, visible |-> <<>>, old_order |-> <<>>, repeated |-> FALSE,
     ops |-> NoOps]

\* No function of config.rs has been called.
NoConf == [fn |-> "none"]

\* No metrics collector exists.
NoTimers == [pc |-> "none"]

\* The module has not been initialised.
NoArith == [pc |-> "none"]

\* No monitor session has started.
NoSession == [pc |-> "none"]

\* A configuration: retry_max, retry_base_delay_ms, format,
\* show_window_count, show_empty, sort_by.
Config(retry_max_, delay_ms_, format, show_window_count, show_empty, sort_by) ==
    <<retry_max_, delay_ms_, format, show_window_count, show_empty, sort_by>>

\* The configurations: retry_max 1 with the defaults of the others, and
\* retry_max MaxRetryMax with the other base delay and a format of the id
\* and the window count.
Configs ==
    {Config(1, DEFAULT_RETRY_BASE_DELAY_MS, <<"{name}">>, FALSE, FALSE,
            "number"),
     Config(MaxRetryMax, OTHER_BASE_DELAY_MS,
            <<"{id}", ":", "{window_count}">>, FALSE, FALSE, "number")}

\* The state VirtualDesktopsModule::init leaves for the configuration c.
InitWith(c) ==
    /\ pc = "start"
    /\ consecutive_failures = 0
    /\ retry_count = 0
    /\ retry_max = c[1]
    /\ retry_base_delay_ms = c[2]
    /\ wm = WidgetManager_new(WidgetConfig(c[3], c[4], c[5], c[6]))
    /\ recovery_delay = 0
    /\ conn = FALSE
    /\ name_i = 0
    /\ lock = "free"
    /\ mgr_ipc \in BOOLEAN
    /\ virtual_desktops \in (IF mgr_ipc THEN InitStores \cup {EmptyMap}
                             ELSE {EmptyMap})
    /\ chan = <<>>
    /\ rx_alive = TRUE
    /\ shutdown = FALSE
    /\ gui = "waiting"
    /\ committed = virtual_desktops
    /\ resp = NoPayload
    /\ named = {}
    /\ apply_fails = 0
    /\ last_error = "none"
    /\ signal_in_backoff = FALSE
    /\ backoff = NoBackoff
    /\ wlast = NoCall
    /\ disp = NoDisplay
    /\ ipc = NoIpc
    /\ listen = NoListen
    /\ conf = NoConf
    /\ timers = NoTimers
    /\ arith = NoArith
    /\ session = NoSession

Init == \E c \in Configs : InitWith(c)

\* ------------------------------------------------------ frames and helpers
storeVars == <<virtual_desktops, mgr_ipc, committed, resp, named>>
guiVars == <<gui, shutdown, signal_in_backoff>>
chanVars == <<chan, rx_alive>>

\* A give-up test that allows MAX_CONSECUTIVE_FAILURES failures and stops at
\* the next one.
give_up_above(failures) == failures > MAX_CONSECUTIVE_FAILURES

\* monitor.rs:42  if consecutive_failures >= MAX_CONSECUTIVE_FAILURES
give_up(failures) == failures >= MAX_CONSECUTIVE_FAILURES

\* An Err arm that ends the loop at the first failed cycle.
AlwaysTerminal(failures) == "failed"

\* monitor.rs:37-63, the Err arm of resilient_monitor_loop, entered with the
\* incremented counter: return RetryExhausted, or go to the recovery delay.
AfterCycleError(failures) ==
    IF give_up(failures) THEN "failed" ELSE "outer_sleep"

RECURSIVE pow2(_)
pow2(n) == IF n = 0 THEN 1 ELSE 2 * pow2(n - 1)

\* A recovery delay that grows by the base with every failure.
linear_delay_ms(base, failures) == base * failures

\* monitor.rs:50-52  retry_base_delay_ms * 2_u64.pow(consecutive_failures - 1)
recovery_delay_ms(base, failures) == base * pow2(failures - 1)

\* monitor_virtual_desktops_once returned Err(e) (monitor.rs:37-53).
CycleFailed(e) ==
    /\ consecutive_failures' = consecutive_failures + 1
    /\ pc' = AfterCycleError(consecutive_failures + 1)
    /\ last_error' = e
    /\ recovery_delay' =
          IF AfterCycleError(consecutive_failures + 1) = "outer_sleep"
          THEN recovery_delay_ms(retry_base_delay_ms, consecutive_failures + 1)
          ELSE 0

\* A retry test that gives up when the count reaches the budget.
retries_reached(count, max_retries) == count >= max_retries

\* hyprland.rs:100  if retry_count > max_retries
retries_exceeded(count, max_retries) == count > max_retries

\* hyprland.rs:97-120, the Err arm of listen_for_events: count the retry;
\* give up (the error goes up through monitor.rs:113-117) or sleep.
ListenFailed ==
    /\ retry_count' = retry_count + 1
    /\ IF retries_exceeded(retry_count + 1, retry_max)
       THEN CycleFailed("BrokenPipe")
       ELSE /\ pc' = "inner_sleep"
            /\ UNCHANGED <<consecutive_failures, last_error, recovery_delay>>

\* A refresh error that ends the cycle's session: the loop starts over with
\* a new client.
RestartAfterRefreshError == "start"

\* monitor.rs:97-99 and 91-92: update_state returned Err; the error is
\* logged and the cycle's loop calls listen_for_events again.
AfterRefreshError == "connect"

\* A refresh error that counts as a failed cycle from the third in a row.
RefreshFailedCounted ==
    /\ lock' = "free"
    /\ apply_fails' = IF apply_fails < MaxApplyFails THEN apply_fails + 1
                      ELSE apply_fails
    /\ IF apply_fails + 1 >= 3
       THEN CycleFailed("Internal")
       ELSE /\ pc' = AfterRefreshError
            /\ UNCHANGED <<consecutive_failures, last_error, recovery_delay>>

\* update_state returned Err (vdesk.rs:47 or :53): the guard is dropped at
\* the end of the block (monitor.rs:111); nothing else changes.
RefreshFailed ==
    /\ lock' = "free"
    /\ apply_fails' = IF apply_fails < MaxApplyFails THEN apply_fails + 1
                      ELSE apply_fails
    /\ pc' = AfterRefreshError
    /\ UNCHANGED <<consecutive_failures, last_error, recovery_delay>>

\* ------------------------------------------------------- the monitor task
\* monitor.rs:83-92: with_config succeeds (hyprland.rs:78-84) and the first
\* listen_for_events call starts (retry_count = 0, hyprland.rs:87).
WithConfigOk ==
    /\ pc = "start"
    /\ pc' = "connect"
    /\ UNCHANGED <<consecutive_failures, retry_count, retry_max, retry_base_delay_ms, conn, name_i,
                   lock, apply_fails, last_error, recovery_delay>>
    /\ UNCHANGED <<storeVars, guiVars, chanVars>>

\* A construction failure that ends the monitor at once.
WithConfigErrFatal ==
    /\ pc = "start"
    /\ consecutive_failures' = consecutive_failures + 1
    /\ pc' = "failed"
    /\ last_error' = "ConnectionRefused"
    /\ recovery_delay' = 0
    /\ UNCHANGED <<retry_count, retry_max, retry_base_delay_ms, conn, name_i, lock, apply_fails>>
    /\ UNCHANGED <<storeVars, guiVars, chanVars>>

\* hyprland.rs:70-76: a socket path does not exist; monitor.rs:84-86 turns
\* the error into IpcConnection(ConnectionRefused) and `?` returns it.
WithConfigErr ==
    /\ pc = "start"
    /\ CycleFailed("ConnectionRefused")
    /\ UNCHANGED <<retry_count, retry_max, retry_base_delay_ms, conn, name_i, lock, apply_fails>>
    /\ UNCHANGED <<storeVars, guiVars, chanVars>>

\* hyprland.rs:126  UnixStream::connect(&self.event_socket_path) succeeds.
ConnectOk ==
    /\ pc = "connect"
    /\ conn' = TRUE
    /\ pc' = "reading"
    /\ UNCHANGED <<consecutive_failures, retry_count, retry_max, retry_base_delay_ms, name_i, lock,
                   apply_fails, last_error, recovery_delay>>
    /\ UNCHANGED <<storeVars, guiVars, chanVars>>

\* hyprland.rs:126  connect fails: `?` returns the error to listen_for_events.
ConnectErr ==
    /\ pc = "connect"
    /\ ListenFailed
    /\ UNCHANGED <<retry_max, retry_base_delay_ms, conn, name_i, lock, apply_fails>>
    /\ UNCHANGED <<storeVars, guiVars, chanVars>>

\* hyprland.rs:130-135: a line that does not start with "vdesk>>" is logged
\* and the loop reads the next one.
ReadOtherLine ==
    /\ pc = "reading"
    /\ UNCHANGED monitorVars

\* hyprland.rs:132-134 and monitor.rs:93-96: a "vdesk>>" line is returned
\* (the stream and retry_count are locals and end here), the monitor matches
\* the prefix and asks for the manager lock.
ReadEvent ==
    /\ pc = "reading"
    /\ conn' = FALSE
    /\ retry_count' = 0
    /\ pc' = "lock"
    /\ UNCHANGED <<consecutive_failures, retry_max, retry_base_delay_ms, name_i, lock, apply_fails,
                   last_error, recovery_delay>>
    /\ UNCHANGED <<storeVars, guiVars, chanVars>>

\* hyprland.rs:130 (`?` on a read error) and :137 ("Event stream ended").
ReadEnd ==
    /\ pc = "reading"
    /\ conn' = FALSE
    /\ ListenFailed
    /\ UNCHANGED <<retry_max, retry_base_delay_ms, name_i, lock, apply_fails>>
    /\ UNCHANGED <<storeVars, guiVars, chanVars>>

\* hyprland.rs:119  the retry delay has elapsed.
InnerSleepDone ==
    /\ pc = "inner_sleep"
    /\ pc' = "connect"
    /\ UNCHANGED <<consecutive_failures, retry_count, retry_max, retry_base_delay_ms, conn, name_i,
                   lock, apply_fails, last_error, recovery_delay>>
    /\ UNCHANGED <<storeVars, guiVars, chanVars>>

\* monitor.rs:96  manager.lock().await is granted.
LockAcquired ==
    /\ pc = "lock"
    /\ lock = "free"
    /\ lock' = "monitor"
    /\ pc' = "upd"
    /\ UNCHANGED <<consecutive_failures, retry_count, retry_max, retry_base_delay_ms, conn, name_i,
                   apply_fails, last_error, recovery_delay>>
    /\ UNCHANGED <<storeVars, guiVars, chanVars>>

\* vdesk.rs:46-48: the manager has no client yet and HyprlandIPC::new fails.
UpdateNewErr ==
    /\ pc = "upd"
    /\ ~mgr_ipc
    /\ RefreshFailed
    /\ UNCHANGED <<retry_count, retry_max, retry_base_delay_ms, conn, name_i>>
    /\ UNCHANGED <<storeVars, guiVars, chanVars>>

\* vdesk.rs:46-53: the client exists (or is created now) and the printstate
\* command is written to the command socket.
UpdateRequestState ==
    /\ pc = "upd"
    /\ mgr_ipc' = TRUE
    /\ pc' = "fetch_wait"
    /\ UNCHANGED <<consecutive_failures, retry_count, retry_max, retry_base_delay_ms, conn, name_i,
                   lock, apply_fails, last_error, recovery_delay>>
    /\ UNCHANGED <<virtual_desktops, committed, resp, named>>
    /\ UNCHANGED <<guiVars, chanVars>>

\* vdesk.rs:53  get_virtual_desktop_state().await? fails.
StateErr ==
    /\ pc = "fetch_wait"
    /\ RefreshFailed
    /\ UNCHANGED <<retry_count, retry_max, retry_base_delay_ms, conn, name_i>>
    /\ UNCHANGED <<storeVars, guiVars, chanVars>>

\* vdesk.rs:53-63: the payload arrives, is parsed into the map (`?` on the
\* parse result), and the first printdesk command is written.
StateReply(state) ==
    /\ pc = "fetch_wait"
    /\ LET r == parse_virtual_desktop_state(virtual_desktops, state)
       IN  /\ virtual_desktops' = r.map
           /\ resp' = PayloadSummary(state)
           /\ named' = {}
           /\ IF r.ok
              THEN /\ name_i' = 1
                   /\ pc' = "name_wait"
                   /\ UNCHANGED <<lock, apply_fails, consecutive_failures,
                                  last_error, recovery_delay>>
              ELSE /\ RefreshFailed
                   /\ UNCHANGED name_i
    /\ UNCHANGED <<retry_count, retry_max, retry_base_delay_ms, conn>>
    /\ UNCHANGED <<mgr_ipc, committed, guiVars, chanVars>>

\* vdesk.rs:60-71: the answer to `printdesk name_i` arrives and is applied;
\* then the next command is written, or update_state returns Ok and
\* monitor.rs:102-103 takes the snapshot and awaits tx.send.
NameReply(info) ==
    /\ pc = "name_wait"
    /\ virtual_desktops' = ApplyNameReply(virtual_desktops, name_i, info)
    /\ named' = IF info.ok /\ info.colon THEN named \cup {name_i} ELSE named
    /\ IF name_i = LAST_NAME_QUERY
       THEN /\ pc' = "send"
            /\ apply_fails' = 0
            /\ name_i' = 0
       ELSE /\ name_i' = name_i + 1
            /\ UNCHANGED <<pc, apply_fails>>
    /\ UNCHANGED <<consecutive_failures, retry_count, retry_max, retry_base_delay_ms, conn, lock,
                   last_error, recovery_delay>>
    /\ UNCHANGED <<mgr_ipc, committed, resp, guiVars, chanVars>>

\* A send of the snapshot the renderer was given last time.
SendStaleOk ==
    /\ pc = "send"
    /\ rx_alive
    /\ chan = <<>>
    /\ chan' = <<get_virtual_desktops(committed)>>
    /\ lock' = "free"
    /\ committed' = virtual_desktops
    /\ resp' = NoPayload
    /\ named' = {}
    /\ pc' = "connect"
    /\ UNCHANGED <<consecutive_failures, retry_count, retry_max,
                   retry_base_delay_ms, conn, name_i, apply_fails, last_error,
                   recovery_delay>>
    /\ UNCHANGED <<virtual_desktops, mgr_ipc, rx_alive, guiVars>>

\* monitor.rs:103-111: the snapshot is accepted by the channel; the guard
\* goes out of scope and the loop calls listen_for_events again.
SendOk ==
    /\ pc = "send"
    /\ rx_alive
    /\ chan = <<>>
    /\ chan' = <<get_virtual_desktops(virtual_desktops)>>
    /\ lock' = "free"
    /\ committed' = virtual_desktops
    /\ resp' = NoPayload
    /\ named' = {}
    /\ pc' = "connect"
    /\ UNCHANGED <<consecutive_failures, retry_count, retry_max, retry_base_delay_ms, conn, name_i,
                   apply_fails, last_error, recovery_delay>>
    /\ UNCHANGED <<virtual_desktops, mgr_ipc, rx_alive, guiVars>>

\* A failed send that is logged and not returned: the loop goes on
\* listening.
SendErrLogged ==
    /\ pc = "send"
    /\ ~rx_alive
    /\ lock' = "free"
    /\ committed' = virtual_desktops
    /\ resp' = NoPayload
    /\ named' = {}
    /\ pc' = "connect"
    /\ UNCHANGED <<consecutive_failures, retry_count, retry_max, retry_base_delay_ms, conn, name_i,
                   apply_fails, last_error, recovery_delay>>
    /\ UNCHANGED <<virtual_desktops, mgr_ipc, chanVars, guiVars>>

\* monitor.rs:103-109: the receiver is gone; the cycle returns Internal.
SendErr ==
    /\ pc = "send"
    /\ ~rx_alive
    /\ lock' = "free"
    /\ committed' = virtual_desktops
    /\ resp' = NoPayload
    /\ named' = {}
    /\ CycleFailed("Internal")
    /\ UNCHANGED <<retry_count, retry_max, retry_base_delay_ms, conn, name_i, apply_fails>>
    /\ UNCHANGED <<virtual_desktops, mgr_ipc, chanVars, guiVars>>

\* monitor.rs:60-62  the recovery delay has elapsed; `e` goes out of scope
\* and the loop starts over.
OuterSleepDone ==
    /\ pc = "outer_sleep"
    /\ pc' = "start"
    /\ last_error' = "none"
    /\ recovery_delay' = 0
    /\ retry_count' = 0
    /\ UNCHANGED <<consecutive_failures, retry_max, retry_base_delay_ms, conn, name_i, lock,
                   apply_fails>>
    /\ UNCHANGED <<storeVars, guiVars, chanVars>>

\* A loop whose shutdown arm is looked at only during the backoff sleeps.
SuspendedInBackoffOnly == {"outer_sleep", "inner_sleep"}

\* The awaits of the monitor task.  select! (monitor.rs:26-31, 55-59) can
\* take the shutdown arm at any of them.
Suspended ==
    {"start", "connect", "reading", "inner_sleep", "lock", "upd",
     "fetch_wait", "name_wait", "send", "outer_sleep"}

\* monitor.rs:27-30 and 56-59: the shutdown arm wins; the cycle's future is
\* dropped where it stands, with its locals, its stream and its MutexGuard.
ShutdownObserved ==
    /\ shutdown
    /\ pc \in Suspended
    /\ pc' = "stopped"
    /\ conn' = FALSE
    /\ lock' = IF lock = "monitor" THEN "free" ELSE lock
    /\ last_error' = "none"
    /\ recovery_delay' = 0
    /\ retry_count' = 0
    /\ name_i' = 0
    /\ UNCHANGED <<consecutive_failures, retry_max, retry_base_delay_ms, apply_fails>>
    /\ UNCHANGED <<storeVars, guiVars, chanVars>>

\* ----------------------------------------------------------- the GUI side
\* lib.rs:357-363, 408-413: the host calls update()/refresh(); update_display
\* blocks the GUI thread on manager.lock().
UpdateDisplayCall ==
    /\ ~shutdown
    /\ gui = "idle"
    /\ gui' = "waiting"
    /\ UNCHANGED <<pc, consecutive_failures, retry_count, retry_max, retry_base_delay_ms, conn,
                   name_i, lock, apply_fails, last_error, recovery_delay>>
    /\ UNCHANGED <<storeVars, chanVars, shutdown, signal_in_backoff>>

\* lib.rs:412-414: the lock is granted, get_virtual_desktops clones the
\* records out and the guard is dropped at the end of the expression.
UpdateDisplayRead ==
    /\ gui = "waiting"
    /\ lock = "free"
    /\ gui' = "idle"
    /\ UNCHANGED <<pc, consecutive_failures, retry_count, retry_max, retry_base_delay_ms, conn,
                   name_i, lock, apply_fails, last_error, recovery_delay>>
    /\ UNCHANGED <<storeVars, chanVars, shutdown, signal_in_backoff>>

\* The backoff sleeps: monitor.rs:60 and hyprland.rs:119.
BackoffSleeps == {"outer_sleep", "inner_sleep"}

\* lib.rs:374-381: the module is dropped; the shutdown signal is sent.
Drop ==
    /\ ~shutdown
    /\ gui = "idle"
    /\ shutdown' = TRUE
    /\ signal_in_backoff' = (pc \in BackoffSleeps)
    /\ UNCHANGED <<pc, consecutive_failures, retry_count, retry_max, retry_base_delay_ms, conn,
                   name_i, lock, apply_fails, last_error, recovery_delay>>
    /\ UNCHANGED <<storeVars, chanVars, gui>>

\* The renderer takes the oldest snapshot off the channel (the peer of
\* tx.send, monitor.rs:103).
Recv ==
    /\ rx_alive
    /\ chan # <<>>
    /\ chan' = <<>>
    /\ UNCHANGED <<pc, consecutive_failures, retry_count, retry_max, retry_base_delay_ms, conn,
                   name_i, lock, apply_fails, last_error, recovery_delay>>
    /\ UNCHANGED <<storeVars, guiVars, rx_alive>>

\* The renderer drops its receiver ("Channel closed", monitor.rs:104).
RxClose ==
    /\ rx_alive
    /\ rx_alive' = FALSE
    /\ chan' = <<>>
    /\ UNCHANGED <<pc, consecutive_failures, retry_count, retry_max, retry_base_delay_ms, conn,
                   name_i, lock, apply_fails, last_error, recovery_delay>>
    /\ UNCHANGED <<storeVars, guiVars>>

Next ==
    \/ WithConfigOk
    \/ WithConfigErr
    \/ ConnectOk
    \/ ConnectErr
    \/ ReadOtherLine
    \/ ReadEvent
    \/ ReadEnd
    \/ InnerSleepDone
    \/ LockAcquired
    \/ UpdateNewErr
    \/ UpdateRequestState
    \/ StateErr
    \/ \E state \in Payloads : StateReply(state)
    \/ \E info \in NameReplies(name_i) : NameReply(info)
    \/ SendOk
    \/ SendErr
    \/ OuterSleepDone
    \/ ShutdownObserved
    \/ UpdateDisplayCall
    \/ UpdateDisplayRead
    \/ Drop
    \/ Recv
    \/ RxClose

Spec ==
    Init /\ [][Next /\ UNCHANGED <<backoffVars, widgetVars, displayVars,
                                    ipcVars, streamVars, extraVars>>]_vars

\* The monitor task is woken by the oneshot send and polled by the runtime;
\* every poll of either select! (monitor.rs:26, 55) looks at shutdown_rx
\* unless another arm has just completed, so a shutdown arm that stays ready
\* is taken.
FairSpec ==
    Spec /\ WF_vars(ShutdownObserved
                       /\ UNCHANGED <<backoffVars, widgetVars, displayVars,
                                      ipcVars, streamVars, extraVars>>)

\* ------------------------------------- hyprland.rs: the retry delay alone
Min(a, b) == IF a <= b THEN a ELSE b

\* hyprland.rs:106-109  min(base_delay_ms * 2_u64.pow(retry_count - 1),
\* MAX_DELAY_MS).  The product is built by doubling and the doubling stops
\* once the cap is reached; that is the u64 expression's value whenever the
\* u64 expression does not overflow, which it does not for a base of at
\* most 1000 and a retry_count of at most 54.
RECURSIVE exp_backoff_ms(_, _, _)
exp_backoff_ms(base, n, cap) ==
    IF n <= 1 \/ base >= cap THEN Min(base, cap)
    ELSE exp_backoff_ms(2 * base, n - 1, cap)

\* u64::saturating_sub
saturating_sub(a, b) == IF a >= b THEN a - b ELSE 0

\* u64::saturating_add; the operands here are at most 2 * MAX_DELAY_MS, so
\* u64::MAX is out of reach.
saturating_add(a, b) == a + b

\* A jitter range of half the base delay.
half_range(base_delay) == base_delay \div 2

\* hyprland.rs:112  let jitter_range = base_delay / 4
jitter_range(base_delay) == base_delay \div 4

\* hyprland.rs:113  fastrand::u64(0..=jitter_range * 2): the values it can
\* return.
Jitters(base_delay) == 0..(jitter_range(base_delay) * 2)

\* hyprland.rs:114
delay_ms(base_delay, jitter) ==
    saturating_add(saturating_sub(base_delay, jitter_range(base_delay)),
                   jitter)

\* hyprland.rs:97-109: try_listen_for_events failed once more; retry_count
\* is incremented and the base delay of this retry computed.  (The give-up
\* test of line 100 is left to the monitor's specification.)
BackoffAttemptFailed ==
    /\ backoff.retry_count < MaxAttempt
    /\ backoff.retry_count = 0 \/ backoff.slept
    /\ backoff' =
          [retry_count |-> backoff.retry_count + 1,
           base_delay |-> exp_backoff_ms(retry_base_delay_ms,
                                         backoff.retry_count + 1, MAX_DELAY_MS),
           jitter |-> 0, delay_ms |-> 0, slept |-> FALSE]

\* hyprland.rs:111-119: the jitter is drawn and the delay slept.
BackoffSleep(jitter) ==
    /\ backoff.retry_count > 0
    /\ ~backoff.slept
    /\ backoff' =
          [backoff EXCEPT !.jitter = jitter,
                          !.delay_ms = delay_ms(backoff.base_delay, jitter),
                          !.slept = TRUE]

\* The draws open to the retry whose delay has not been slept yet.
PendingJitters ==
    IF backoff.retry_count > 0 /\ ~backoff.slept
    THEN Jitters(backoff.base_delay) ELSE {}

BackoffInit ==
    /\ Init
    /\ ~mgr_ipc

BackoffNext ==
    \/ BackoffAttemptFailed
    \/ \E jitter \in PendingJitters : BackoffSleep(jitter)

BackoffSpec ==
    BackoffInit /\ [][BackoffNext /\ UNCHANGED <<monitorVars, widgetVars,
                                                 displayVars, ipcVars,
                                                 streamVars, extraVars>>]_vars

\* ================================================================= widgets
\* WidgetManager (ui/widgets.rs) keeps one widget per visible desktop in a
\* GTK box.  A text is the sequence of the pieces it is put together from.

\* str::replace(from, to) on a text: every piece that is `from` becomes
\* `to`.
replace(text, from, to) ==
    [i \in 1..Len(text) |-> IF text[i] = from THEN to ELSE text[i]]

\* format_virtual_desktop(&self, name, id, window_count): the four
\* replacements, one after the other on the result of the one before.
format_virtual_desktop(config, name, id, window_count) ==
    LET icons == config.format_icons
        icon == IF ToString(id) \in DOMAIN icons THEN icons[ToString(id)]
                ELSE IF name \in DOMAIN icons THEN icons[name]
                ELSE ""
    IN  replace(replace(replace(replace(config.format, "{name}", name),
                                "{icon}", icon),
                        "{id}", ToString(id)),
                "{window_count}", ToString(window_count))

\* A tooltip that shows the window count under every configuration.
format_tooltip_with_count(config, name, id, window_count, focused) ==
    <<"Virtual Desktop ", ToString(id), ": ", name>>
        \o <<" (", ToString(window_count), " windows)">>
        \o (IF focused THEN <<" - focused">> ELSE <<>>)

\* format_tooltip(&self, name, id, window_count, focused)
format_tooltip(config, name, id, window_count, focused) ==
    <<"Virtual Desktop ", ToString(id), ": ", name>>
        \o (IF config.show_window_count
            THEN <<" (", ToString(window_count), " windows)">>
            ELSE <<>>)
        \o (IF focused THEN <<" - focused">> ELSE <<>>)

\* VirtualDesktopWidget::new: the fields that update_if_changed compares.
VirtualDesktopWidget_new(vdesk, display_text, tooltip_text) ==
    [vdesk_id |-> vdesk.id, display_text |-> display_text,
     tooltip_text |-> tooltip_text, focused |-> vdesk.focused]

\* A widget whose label, tooltip and focus classes are set on every update.
update_always(w, vdesk, display_text, tooltip_text) ==
    [widget |-> VirtualDesktopWidget_new(vdesk, display_text, tooltip_text),
     set_text |-> TRUE, set_tooltip |-> TRUE, set_focus |-> TRUE,
     updated |-> TRUE]

\* update_if_changed(&mut self, vdesk, display_text, tooltip_text): the
\* widget afterwards, the GTK setters called, and the returned flag.
update_if_changed(w, vdesk, display_text, tooltip_text) ==
    LET text == w.display_text # display_text
        tooltip == w.tooltip_text # tooltip_text
        focus == w.focused # vdesk.focused
    IN  [widget |->
            [w EXCEPT !.display_text = IF text THEN display_text ELSE @,
                      !.tooltip_text = IF tooltip THEN tooltip_text ELSE @,
                      !.focused = IF focus THEN vdesk.focused ELSE @],
         set_text |-> text, set_tooltip |-> tooltip, set_focus |-> focus,
         updated |-> text \/ tooltip \/ focus]

\* The sequence s without every occurrence of the members of S.
Without(s, S) ==
    LET keep(x) == x \notin S
    IN  SelectSeq(s, keep)

\* The map m without the keys in S.
MapRemove(m, S) == [x \in (DOMAIN m) \ S |-> m[x]]

\* The ids of a slice of desktops.
Ids(visible_vdesks) == [i \in 1..Len(visible_vdesks) |-> visible_vdesks[i].id]

Range(s) == {s[i] : i \in 1..Len(s)}

\* A removal that leaves the widget in the container.
remove_from_map_only(w, visible_ids) ==
    LET widgets_to_remove == (DOMAIN w.widgets) \ visible_ids
    IN  [w EXCEPT !.widgets = MapRemove(@, widgets_to_remove),
                  !.widget_order = Without(@, widgets_to_remove)]

\* update_widgets, first loop: the widgets of the desktops that are no
\* longer visible leave the map, the container and widget_order.
remove_hidden(w, visible_ids) ==
    LET widgets_to_remove == (DOMAIN w.widgets) \ visible_ids
    IN  [w EXCEPT !.widgets = MapRemove(@, widgets_to_remove),
                  !.container = Without(@, widgets_to_remove),
                  !.widget_order = Without(@, widgets_to_remove)]

\* update_widgets, first loop: the removals it makes, one after the other.
removals(widgets_to_remove) ==
    [NoOps EXCEPT
       !.removed = widgets_to_remove,
       !.log = [i \in 1..Cardinality(widgets_to_remove) |-> "destroy"]]

\* A new widget that is put into the container but not into the map.
create_unrecorded(w, widget) ==
    [w EXCEPT !.container = Append(@, widget.vdesk_id)]

\* update_widgets, else branch of the second loop: container.add appends
\* the new widget, widgets.insert records it.
create_widget(w, widget) ==
    [w EXCEPT !.container = Append(@, widget.vdesk_id),
              !.widgets = MapInsert(@, widget.vdesk_id, widget)]

\* update_widgets, second loop from its i-th desktop on; st is the manager
\* and the GTK operations so far.
RECURSIVE update_or_create(_, _, _)
update_or_create(st, visible_vdesks, i) ==
    IF i > Len(visible_vdesks) THEN st
    ELSE
      LET vdesk == visible_vdesks[i]
          w == st.wm
          display_text ==
              format_virtual_desktop(w.config, vdesk.name, vdesk.id,
                                     vdesk.window_count)
          tooltip_text ==
              format_tooltip(w.config, vdesk.name, vdesk.id,
                             vdesk.window_count, vdesk.focused)
          r == update_if_changed(w.widgets[vdesk.id], vdesk, display_text,
                                 tooltip_text)
          mark(S, b) == IF b THEN S \cup {vdesk.id} ELSE S
          next ==
              IF vdesk.id \in DOMAIN w.widgets
              THEN [wm |-> [w EXCEPT !.widgets[vdesk.id] = r.widget],
                    ops |-> [st.ops EXCEPT
                               !.set_text = mark(@, r.set_text),
                               !.set_tooltip = mark(@, r.set_tooltip),
                               !.set_focus = mark(@, r.set_focus),
                               !.updated = mark(@, r.updated),
                               !.log = IF r.updated THEN Append(@, "update")
                                       ELSE @]]
              ELSE [wm |-> create_widget(w,
                               VirtualDesktopWidget_new(vdesk, display_text,
                                                        tooltip_text)),
                    ops |-> [st.ops EXCEPT !.created = @ \cup {vdesk.id},
                                           !.log = Append(@, "create")]]
      IN  update_or_create(next, visible_vdesks, i + 1)

\* The position map built by enumerate().collect(): 0-based, the last
\* occurrence wins.
position(order, id) ==
    (CHOOSE i \in 1..Len(order) :
        order[i] = id /\ \A j \in (i + 1)..Len(order) : order[j] # id) - 1

\* A reorder step that moves every widget found in both orders.
moves_all_common(widget_order, new_order) ==
    {<<id, position(new_order, id)>> :
        id \in Range(new_order) \cap Range(widget_order)}

\* optimize_widget_reordering, moves_needed: (widget_id, target_pos) for
\* every id of new_order that widget_order has at another position.
moves_needed(widget_order, new_order) ==
    {<<id, position(new_order, id)>> :
        id \in {x \in Range(new_order) \cap Range(widget_order) :
                  position(widget_order, x) # position(new_order, x)}}

\* moves_needed is filled by iterating over a HashMap, whose order is
\* arbitrary: every sequence that holds each move once.
MoveOrders(moves) ==
    {o \in [1..Cardinality(moves) -> moves] :
        \A i, j \in 1..Cardinality(moves) : i # j => o[i] # o[j]}

\* gtk_box_reorder_child(child, position): the child is taken out of the
\* list of children and put back at the 0-based position, at the end if the
\* list is shorter.
reorder_child(container, child, pos) ==
    IF child \notin Range(container) THEN container
    ELSE
      LET rest == Without(container, {child})
          at == IF pos < Len(rest) THEN pos ELSE Len(rest)
      IN  SubSeq(rest, 1, at) \o <<child>> \o SubSeq(rest, at + 1, Len(rest))

\* optimize_widget_reordering, the loop over moves_needed from its i-th move.
RECURSIVE apply_moves(_, _, _)
apply_moves(container, moves, i) ==
    IF i > Len(moves) THEN container
    ELSE apply_moves(reorder_child(container, moves[i][1], moves[i][2]),
                     moves, i + 1)

\* A reorder step that moves the widgets and keeps the old widget_order.
reorder_container_only(w, new_order, moves) ==
    IF new_order = w.widget_order THEN w
    ELSE [w EXCEPT !.container = apply_moves(@, moves, 1)]

\* optimize_widget_reordering(&mut self, new_order) with its moves in the
\* order the HashMap iteration gave them.
optimize_widget_reordering(w, new_order, moves) ==
    IF new_order = w.widget_order THEN w
    ELSE [w EXCEPT !.container = apply_moves(@, moves, 1),
                   !.widget_order = new_order]

\* The desktops update_widgets is called with.
WidgetNames == {PayloadName, ReplyName}

WidgetIds == 1..MaxWidgetId

VisibleDesk(id, name, focused, window_count) ==
    [id |-> id, name |-> name, focused |-> focused,
     populated |-> window_count > 0, window_count |-> window_count]

\* A desktop whose content is the same in every call.
FixedDesk(id) == VisibleDesk(id, PayloadName, FALSE, 1)

\* Every order of every subset of ids.
Orders(ids) ==
    {o \in SeqsUpTo(ids, Cardinality(ids)) :
        \A i, j \in 1..Len(o) : i # j => o[i] # o[j]}

VisibleOrders == Orders(WidgetIds)

\* Every list of distinct ids, each desktop with the same content in every
\* call: what changes from call to call is which desktops are visible and in
\* what order.
VisibleLists ==
    {[i \in 1..Len(o) |-> FixedDesk(o[i])] : o \in VisibleOrders}

\* Every list of distinct ids up to MaxContentId, the desktop with id 1 in
\* every content: name, focus and window count change from call to call
\* too.
ContentLists ==
    {[i \in 1..Len(o) |-> IF o[i] = 1 THEN first ELSE FixedDesk(o[i])] :
        o \in Orders(1..MaxContentId),
        first \in {VisibleDesk(1, n, f, c) :
                     n \in WidgetNames, f \in BOOLEAN, c \in 0..1}}

\* WidgetManager::update_widgets(&mut self, visible_vdesks)
UpdateWidgets(visible_vdesks) ==
    \E new_order \in {Ids(visible_vdesks)} :
    \E st \in {update_or_create(
                  [wm |-> remove_hidden(wm, Range(new_order)),
                   ops |-> removals((DOMAIN wm.widgets) \ Range(new_order))],
                  visible_vdesks, 1)} :
    \E needed \in {IF new_order # st.wm.widget_order
                    THEN moves_needed(st.wm.widget_order, new_order)
                    ELSE {}} :
    \E moves \in MoveOrders(needed) :
        /\ wm' = IF new_order # st.wm.widget_order
                 THEN optimize_widget_reordering(st.wm, new_order, moves)
                 ELSE st.wm
        /\ wlast' = [called |-> TRUE,
                     visible |-> visible_vdesks,
                     old_order |-> st.wm.widget_order,
                     repeated |-> wlast.called
                                    /\ wlast.visible = visible_vdesks,
                     ops |-> [st.ops EXCEPT
                                !.moved = needed,
                                !.log = @ \o [i \in 1..Len(moves) |-> "move"]]]

\* The manager of the configuration whose label and tooltip show different
\* fields of a desktop.
WidgetInit == Init /\ ~mgr_ipc /\ retry_max = MaxRetryMax

\* What a call of update_widgets leaves alone.
widgetFrame ==
    <<monitorVars, backoffVars, displayVars, ipcVars, streamVars, extraVars>>

WidgetNext == \E visible_vdesks \in VisibleLists : UpdateWidgets(visible_vdesks)

WidgetSpec ==
    WidgetInit /\ [][WidgetNext /\ UNCHANGED widgetFrame]_vars

ContentNext == \E visible_vdesks \in ContentLists : UpdateWidgets(visible_vdesks)

ContentSpec ==
    WidgetInit /\ [][ContentNext /\ UNCHANGED widgetFrame]_vars

\* =================================================================== store
\* parse_virtual_desktop_state and the two readers of the store, on payloads
\* that describe whole records.

\* get_focused_virtual_desktop(&self): the first focused value that the
\* iteration over the HashMap meets, <<>> for None.  The order of the
\* iteration is arbitrary: every result it can give.
get_focused_virtual_desktop(m) ==
    IF \E k \in DOMAIN m : m[k].focused
    THEN {<<m[k]>> : k \in {x \in DOMAIN m : m[x].focused}}
    ELSE {<<>>}

\* The printstate text for the records recs: the title line, then for each
\* record its header and its Focused, Populated and Windows lines.
RECURSIVE PayloadOf(_)
PayloadOf(recs) ==
    IF recs = <<>> THEN <<OtherLine>>
    ELSE LET r == recs[Len(recs)]
         IN  PayloadOf(SubSeq(recs, 1, Len(recs) - 1))
                 \o <<DeskLine(r.id, r.name), FocusedLine(r.focused),
                      PopulatedLine(r.populated), WindowsLine(r.window_count)>>

\* The records a payload can hold for the desktop id: every name, focus flag
\* and window count for the ids 1 and 2, one content for the others.
StoreDesks(id) ==
    IF id <= 2
    THEN {VisibleDesk(id, n, f, c) :
            n \in WidgetNames, f \in BOOLEAN, c \in 0..1}
    ELSE {FixedDesk(id)}

\* The lists of records of the payloads: distinct ids in every order.
StoreRecordLists ==
    UNION {{recs \in [1..Len(o) -> UNION {StoreDesks(i) : i \in 1..MaxStoreId}] :
              \A i \in 1..Len(o) : recs[i].id = o[i]} :
           o \in Orders(1..MaxStoreId)}

\* What the store specifications leave alone.
storeFrame ==
    <<pc, consecutive_failures, retry_count, retry_max, retry_base_delay_ms,
      recovery_delay, conn, name_i, lock, mgr_ipc, chan, rx_alive, shutdown,
      gui, committed, resp, named, apply_fails, last_error, signal_in_backoff,
      backoffVars, ipcVars, streamVars, extraVars>>

\* parse_virtual_desktop_state(&mut self, state) with the text for recs.
ParsePayload(recs) ==
    /\ virtual_desktops' =
          parse_virtual_desktop_state(virtual_desktops, PayloadOf(recs)).map
    /\ disp' = [disp EXCEPT !.payload = recs, !.parsed = TRUE,
                            !.shown = FALSE]
    /\ UNCHANGED <<storeFrame, widgetVars>>

StoreInit == Init /\ ~mgr_ipc /\ retry_max = 1

StoreNext == \E recs \in StoreRecordLists : ParsePayload(recs)

StoreSpec == StoreInit /\ [][StoreNext]_vars

\* ================================================================= display
\* update_display (lib.rs) reads the store, keeps the desktops to show and
\* brings the module's own container, widgets and widget_order, held in wm,
\* to them.

\* A filter that does not look at the focus.
is_visible_unfocused(config, vdesk) == vdesk.populated \/ config.show_empty

\* update_display, the closure of the filter.
is_visible(config, vdesk) ==
    vdesk.populated \/ vdesk.focused \/ config.show_empty

\* update_display, visible_vdesks: the snapshot filtered, its order kept.
visible_vdesks_of(config, virtual_desktops_) ==
    LET keep(vdesk) == is_visible(config, vdesk)
    IN  SelectSeq(virtual_desktops_, keep)

\* update_widgets_incrementally, Phase 3 loop from the i-th id of new_order:
\* reorder_child(widget, new_position) for every id, the position 0-based.
RECURSIVE reorder_all(_, _, _)
reorder_all(container, new_order, i) ==
    IF i > Len(new_order) THEN container
    ELSE reorder_all(reorder_child(container, new_order[i], i - 1),
                     new_order, i + 1)

\* update_widgets_incrementally(&mut self, visible_vdesks).  Phase 1 and
\* Phase 2 are the two loops of WidgetManager::update_widgets written out
\* again; Phase 3 moves every widget when the order changed.
update_widgets_incrementally(w, visible_vdesks) ==
    LET new_order == Ids(visible_vdesks)
        st == update_or_create(
                  [wm |-> remove_hidden(w, Range(new_order)), ops |-> NoOps],
                  visible_vdesks, 1)
    IN  IF new_order # st.wm.widget_order
        THEN [st.wm EXCEPT !.container = reorder_all(@, new_order, 1),
                           !.widget_order = new_order]
        ELSE st.wm

\* update_display(&mut self); disp.target is the order of the desktops it
\* hands to update_widgets_incrementally.
UpdateDisplay ==
    \E visible_vdesks \in
          {visible_vdesks_of(wm.config,
                             get_virtual_desktops(virtual_desktops))} :
        /\ wm' = update_widgets_incrementally(wm, visible_vdesks)
        /\ disp' = [disp EXCEPT !.shown = TRUE,
                                !.target = Ids(visible_vdesks)]
        /\ UNCHANGED <<storeFrame, virtual_desktops, wlast>>

\* The name of a desktop is fixed by its id, and the names ascend where the
\* ids descend.
DisplayName(id) == IF id % 2 = 1 THEN ReplyName ELSE PayloadName

\* The stores update_display reads: desktops 1..MaxStoreId, the desktops 1
\* and 2 with every focus flag and window count.
DisplayRecordLists ==
    {recs \in StoreRecordLists :
        \A i \in 1..Len(recs) :
            /\ recs[i].name = DisplayName(recs[i].id)
            /\ \A j \in 1..(i - 1) : recs[j].id < recs[i].id}

\* One configuration for each sort strategy, one of them with show_empty.
DisplayConfigs ==
    {Config(1, DEFAULT_RETRY_BASE_DELAY_MS, <<"{name}">>, FALSE, FALSE,
            "number"),
     Config(1, DEFAULT_RETRY_BASE_DELAY_MS, <<"{name}">>, FALSE, TRUE,
            "name"),
     Config(1, DEFAULT_RETRY_BASE_DELAY_MS, <<"{name}">>, FALSE, FALSE,
            "focused-first")}

DisplayInit == \E c \in DisplayConfigs : InitWith(c) /\ ~mgr_ipc

DisplayNext ==
    \/ \E recs \in DisplayRecordLists : ParsePayload(recs)
    \/ UpdateDisplay

DisplaySpec == DisplayInit /\ [][DisplayNext]_vars

\* ============================================================ event stream
\* try_listen_for_events (hyprland.rs) on one connection to the event socket,
\* and what the monitor does with its result.  A line is the sequence of its
\* characters.  listen.seen holds the lines read on this connection,
\* listen.effects what the last result made the monitor do.

VDESK_PREFIX == <<"v", "d", "e", "s", "k", ">", ">">>

\* A test that finds the pattern anywhere in the line.
contains(line, pat) ==
    \E i \in 1..(Len(line) - Len(pat) + 1) :
        SubSeq(line, i, i + Len(pat) - 1) = pat

\* str::starts_with(line, pat)
starts_with(line, pat) ==
    /\ Len(line) >= Len(pat)
    /\ SubSeq(line, 1, Len(pat)) = pat

\* The lines the event socket delivers: a vdesk event, the bare prefix, an
\* event of another kind, the prefix cut short, the prefix after a space,
\* and the empty line.
EventLines ==
    {VDESK_PREFIX \o <<"1">>,
     VDESK_PREFIX,
     <<"w", "o", "r", "k", "s", "p", "a", "c", "e", ">", ">", "1">>,
     <<"v", "d", "e", "s", "k", ">">>,
     <<" ">> \o VDESK_PREFIX \o <<"1">>,
     <<>>}

\* What a connection delivers: some lines, then the end of the stream or a
\* read error.
Streams == SeqsUpTo(EventLines, MaxStreamLen)

StreamEnds == {"eof", "ioerr"}

\* The stream ends and the call returns Ok with an empty line.
end_of_stream_ok(l) == [l EXCEPT !.pc = "ok", !.result = <<>>]

\* hyprland.rs:137: the loop is left at the end of the stream.
end_of_stream(l) == [l EXCEPT !.pc = "err", !.err = "Event stream ended"]

\* What the event stream specification leaves alone.
streamFrame ==
    <<monitorVars, backoffVars, widgetVars, displayVars, ipcVars, extraVars>>

\* hyprland.rs:126-128: the connection is made.
TryListenConnect ==
    /\ listen.pc = "idle"
    /\ \E stream \in Streams, end \in StreamEnds :
          listen' = [listen EXCEPT !.pc = "reading", !.stream = stream,
                                   !.end = end, !.seen = <<>>,
                                   !.result = <<>>, !.err = ""]
    /\ UNCHANGED streamFrame

\* hyprland.rs:126: connect fails and `?` returns the error.
TryListenConnectErr ==
    /\ listen.pc = "idle"
    /\ listen' = [listen EXCEPT !.pc = "err", !.stream = <<>>,
                                !.seen = <<>>, !.result = <<>>,
                                !.err = "connect"]
    /\ UNCHANGED streamFrame

\* hyprland.rs:130-135: next_line gives a line; it is returned if it starts
\* with "vdesk>>", and the loop goes on if not.
TryListenNextLine ==
    /\ listen.pc = "reading"
    /\ listen.stream # <<>>
    /\ \E line \in {Head(listen.stream)} :
          listen' =
            IF starts_with(line, VDESK_PREFIX)
            THEN [listen EXCEPT !.pc = "ok", !.result = line,
                                !.stream = Tail(@),
                                !.seen = Append(@, line)]
            ELSE [listen EXCEPT !.stream = Tail(@),
                                !.seen = Append(@, line)]
    /\ UNCHANGED streamFrame

\* hyprland.rs:130 and 137: next_line gives a read error, which `?`
\* returns, or None.
TryListenEnd ==
    /\ listen.pc = "reading"
    /\ listen.stream = <<>>
    /\ listen' = IF listen.end = "ioerr"
                 THEN [listen EXCEPT !.pc = "err", !.err = "io"]
                 ELSE end_of_stream(listen)
    /\ UNCHANGED streamFrame

\* monitor.rs:92-117: the monitor takes the result.  An event that starts
\* with "vdesk>>" is followed by the requests of update_state, by the write
\* of the store if they succeed and by the send if the store was written;
\* any other result by none of them.  The connection is dropped.
MonitorTakesResult ==
    /\ listen.pc \in {"ok", "err"}
    /\ \E effects \in
            IF listen.pc = "ok" /\ starts_with(listen.result, VDESK_PREFIX)
            THEN {{"request"}, {"request", "store"},
                  {"request", "store", "send"}}
            ELSE {{}} :
          listen' = [listen EXCEPT !.pc = "idle", !.effects = effects]
    /\ UNCHANGED streamFrame

StreamInit == Init /\ ~mgr_ipc /\ retry_max = 1

StreamNext ==
    \/ TryListenConnect
    \/ TryListenConnectErr
    \/ TryListenNextLine
    \/ TryListenEnd
    \/ MonitorTakesResult

StreamSpec == StreamInit /\ [][StreamNext]_vars

\* ============================================================ construction
\* HyprlandIPC::with_config (hyprland.rs), step by step.  A string is a
\* record of its first characters and of the length of the run of PadChar
\* that follows them; a path is the sequence of its components.  ipc.paths
\* holds the paths once they are built, ipc.checked the paths whose
\* existence was asked for.

\* The upper repetition bound of INSTANCE_SIGNATURE_PATTERN.
SIG_MAX_LEN == 64

PadChar == "a"

Str(chars, pad) == [prefix |-> chars, pad |-> pad]

Name(chars) == Str(chars, 0)

StrLen(str) == Len(str.prefix) + str.pad

StrChars(str) ==
    Range(str.prefix) \cup (IF str.pad > 0 THEN {PadChar} ELSE {})

\* [a-zA-Z0-9_-]
SignatureClass ==
    {"a", "b", "c", "d", "e", "f", "g", "h", "i", "j", "k", "l", "m",
     "n", "o", "p", "q", "r", "s", "t", "u", "v", "w", "x", "y", "z",
     "A", "B", "C", "D", "E", "F", "G", "H", "I", "J", "K", "L", "M",
     "N", "O", "P", "Q", "R", "S", "T", "U", "V", "W", "X", "Y", "Z",
     "0", "1", "2", "3", "4", "5", "6", "7", "8", "9", "_", "-"}

\* INSTANCE_SIGNATURE_PATTERN.is_match(signature): ^ and $ are the two ends
\* of the text, so all of it is 1 to 64 characters of the class.
is_match(signature) ==
    /\ StrLen(signature) >= 1
    /\ StrLen(signature) <= SIG_MAX_LEN
    /\ StrChars(signature) \subseteq SignatureClass

\* A validation that rejects the empty signature only.
validate_nonempty_only(signature) ==
    IF StrLen(signature) = 0 THEN "empty signature" ELSE ""

\* validate_instance_signature(signature): "" for Ok, else what the error
\* message says.
validate_instance_signature(signature) ==
    IF StrLen(signature) = 0 THEN "empty signature"
    ELSE IF ~is_match(signature) THEN "unsafe characters"
    ELSE ""

\* Path::is_absolute and PathBuf::join: an absolute component replaces the
\* path.
is_absolute(str) == str.prefix # <<>> /\ str.prefix[1] = "/"

join(path, str) == IF is_absolute(str) THEN <<str>> ELSE Append(path, str)

HYPR == Name(<<"h", "y", "p", "r">>)

SOCKET_SOCK == Name(<<".", "s", "o", "c", "k", "e", "t", ".", "s", "o", "c", "k">>)

SOCKET2_SOCK ==
    Name(<<".", "s", "o", "c", "k", "e", "t", "2", ".", "s", "o", "c", "k">>)

\* An existence check that always succeeds.
exists_always(fs, path) == TRUE

\* Path::exists on the file system fs.
exists(fs, path) == path \in fs

\* The values of HYPRLAND_INSTANCE_SIGNATURE: letters, digits, the two
\* marks of the class, and a slash, a dot and a newline.
SigChars == {"a", "Z", "0", "_", "-", "/", ".", "\n"}

SigPads == {0, SIG_MAX_LEN - 2, SIG_MAX_LEN - 1, SIG_MAX_LEN}

Signatures ==
    {Str(chars, pad) : chars \in SeqsUpTo(SigChars, MaxSigPrefix),
                       pad \in SigPads}

\* The values of XDG_RUNTIME_DIR.
RuntimeDirs == {Name(<<"/", "r", "u", "n">>), Name(<<>>)}

\* What the construction leaves alone.
ipcFrame ==
    <<monitorVars, backoffVars, widgetVars, displayVars, streamVars, extraVars>>

IpcFail(message) == ipc' = [ipc EXCEPT !.pc = "err", !.err = message]

\* hyprland.rs:51-52
EnvSignature ==
    /\ ipc.pc = "start"
    /\ \/ IpcFail("HYPRLAND_INSTANCE_SIGNATURE not set")
       \/ \E signature \in Signatures :
            ipc' = [ipc EXCEPT !.pc = "validate", !.sig = <<signature>>]
    /\ UNCHANGED ipcFrame

\* hyprland.rs:55
ValidateSignature ==
    /\ ipc.pc = "validate"
    /\ \E r \in {validate_instance_signature(ipc.sig[1])} :
          IF r = "" THEN ipc' = [ipc EXCEPT !.pc = "runtime_dir"]
          ELSE IpcFail(r)
    /\ UNCHANGED ipcFrame

\* hyprland.rs:57-68: the directory is read and the two paths are built.
\* ipc.fs is the file system the checks will see.
EnvRuntimeDir ==
    /\ ipc.pc = "runtime_dir"
    /\ \/ IpcFail("XDG_RUNTIME_DIR not set")
       \/ \E runtime_dir \in RuntimeDirs :
          \E socket_path \in
                {join(join(join(<<runtime_dir>>, HYPR), ipc.sig[1]),
                      SOCKET_SOCK)} :
          \E event_socket_path \in
                {join(join(join(<<runtime_dir>>, HYPR), ipc.sig[1]),
                      SOCKET2_SOCK)} :
          \E fs \in SUBSET {socket_path, event_socket_path} :
            ipc' = [ipc EXCEPT !.pc = "socket_exists",
                               !.dir = <<runtime_dir>>,
                               !.paths = <<socket_path, event_socket_path>>,
                               !.fs = fs]
    /\ UNCHANGED ipcFrame

\* hyprland.rs:70-72
CommandSocketExists ==
    /\ ipc.pc = "socket_exists"
    /\ IF exists(ipc.fs, ipc.paths[1])
       THEN ipc' = [ipc EXCEPT !.pc = "event_socket_exists",
                               !.checked = @ \cup {ipc.paths[1]}]
       ELSE ipc' = [ipc EXCEPT !.pc = "err",
                               !.err = "command socket not found",
                               !.checked = @ \cup {ipc.paths[1]}]
    /\ UNCHANGED ipcFrame

\* hyprland.rs:74-83
EventSocketExists ==
    /\ ipc.pc = "event_socket_exists"
    /\ IF exists(ipc.fs, ipc.paths[2])
       THEN ipc' = [ipc EXCEPT !.pc = "ok",
                               !.checked = @ \cup {ipc.paths[2]},
                               !.client =
                                   <<[socket_path |-> ipc.paths[1],
                                      event_socket_path |-> ipc.paths[2]]>>]
       ELSE ipc' = [ipc EXCEPT !.pc = "err",
                               !.err = "event socket not found",
                               !.checked = @ \cup {ipc.paths[2]}]
    /\ UNCHANGED ipcFrame

IpcInit == Init /\ ~mgr_ipc /\ retry_max = 1

IpcNext ==
    \/ EnvSignature
    \/ ValidateSignature
    \/ EnvRuntimeDir
    \/ CommandSocketExists
    \/ EventSocketExists

IpcSpec == IpcInit /\ [][IpcNext]_vars

\* ================================================================= startup
\* VirtualDesktopsModule::init with any configuration waybar can hand it.

\* The limits of ModuleConfig::validate.
MAX_RETRY_MAX == 50

MAX_RETRY_BASE_DELAY_MS == 10000

\* The pieces of a format that hold the character '{'.
BracePieces == {"{name}", "{icon}", "{id}", "{window_count}", "{", "{x}"}

\* ModuleConfig::validate(&self): "" for Ok, else the field of the error.
validate(format, retry_max_, retry_base_delay_ms_) ==
    IF ~\E i \in 1..Len(format) : format[i] \in BracePieces THEN "format"
    ELSE IF retry_max_ = 0 THEN "retry_max"
    ELSE IF retry_max_ > MAX_RETRY_MAX THEN "retry_max"
    ELSE IF retry_base_delay_ms_ > MAX_RETRY_BASE_DELAY_MS
    THEN "retry_base_delay_ms"
    ELSE ""

\* A configuration that validate accepts and one for each of its errors.
StartupConfigs ==
    {Config(1, DEFAULT_RETRY_BASE_DELAY_MS, <<"{name}">>, FALSE, FALSE,
            "number"),
     Config(1, DEFAULT_RETRY_BASE_DELAY_MS, <<"name">>, FALSE, FALSE,
            "number"),
     Config(0, DEFAULT_RETRY_BASE_DELAY_MS, <<"{name}">>, FALSE, FALSE,
            "number"),
     Config(MAX_RETRY_MAX + 1, DEFAULT_RETRY_BASE_DELAY_MS, <<"{name}">>,
            FALSE, FALSE, "number"),
     Config(1, MAX_RETRY_BASE_DELAY_MS + 1, <<"{name}">>, FALSE, FALSE,
            "number")}

StartupInit == \E c \in StartupConfigs : InitWith(c)

StartupSpec ==
    StartupInit
    /\ [][Next /\ UNCHANGED <<backoffVars, widgetVars, displayVars, ipcVars,
                               streamVars, extraVars>>]_vars

\* ================================================================== config
\* The functions of config.rs, each called on its own; conf holds the
\* arguments and the result of the last call.

\* The formats handed to validate: the default, one with three placeholders,
\* text without a brace, the empty format, a lone brace and braces around a
\* word that is no placeholder.
ValidateFormats ==
    {<<"{name}">>, <<"{icon}", " ", "{name}", " (", "{window_count}", ")">>,
     <<"name">>, <<>>, <<"{">>, <<"{x}">>}

ValidateRetryMaxes == {0, 1, MAX_RETRY_MAX, MAX_RETRY_MAX + 1}

ValidateDelays ==
    {0, 1, MAX_RETRY_BASE_DELAY_MS, MAX_RETRY_BASE_DELAY_MS + 1}

\* ModuleConfig::validate(&self)
ValidateCall ==
    \E format \in ValidateFormats, retry_max_ \in ValidateRetryMaxes,
       delay \in ValidateDelays :
        conf' = [fn |-> "validate", format |-> format,
                 retry_max |-> retry_max_, retry_base_delay_ms |-> delay,
                 result |-> validate(format, retry_max_, delay)]

\* The icon maps: none, one for the id 1, one for the name Work, both.
IconMaps ==
    {[x \in {} |-> ""], [x \in {"1"} |-> "H"], [x \in {"Work"} |-> "W"],
     [x \in {"1", "Work"} |-> IF x = "1" THEN "H" ELSE "W"]}

FormatFormats ==
    {<<"{icon}", " ", "{name}", " (", "{window_count}", ")">>,
     <<"{name}">>, <<"{id}", ":", "{name}">>}

\* The names of a desktop: two words, and a name that reads as a placeholder.
FormatNames == {"Home", "Work", "{id}"}

\* format_virtual_desktop and format_tooltip for one desktop.
FormatCall ==
    \E format \in FormatFormats, icons \in IconMaps,
       show_window_count \in BOOLEAN, name \in FormatNames, id \in 1..2,
       window_count \in 0..2, focused \in BOOLEAN :
        \E config \in {[format |-> format, format_icons |-> icons,
                         show_window_count |-> show_window_count]} :
            conf' = [fn |-> "format", config |-> config, name |-> name,
                     id |-> id, window_count |-> window_count,
                     focused |-> focused,
                     display_text |->
                         format_virtual_desktop(config, name, id,
                                                window_count),
                     tooltip_text |->
                         format_tooltip(config, name, id, window_count,
                                        focused)]

\* enum SortStrategy
SortStrategy == {"Number", "Name", "FocusedFirst"}

\* A Display that writes FocusedFirst with an underscore.
to_string_snake(strategy) ==
    CASE strategy = "Number" -> "number"
      [] strategy = "Name" -> "name"
      [] strategy = "FocusedFirst" -> "focused_first"

\* impl Display for SortStrategy
to_string(strategy) ==
    CASE strategy = "Number" -> "number"
      [] strategy = "Name" -> "name"
      [] strategy = "FocusedFirst" -> "focused-first"

\* impl FromStr for SortStrategy: Ok(strategy), or the Configuration error
\* of invalid_config("sort_by", s, ..).
from_str(str) ==
    CASE str = "number" -> [ok |-> TRUE, value |-> "Number"]
      [] str = "name" -> [ok |-> TRUE, value |-> "Name"]
      [] str = "focused-first" -> [ok |-> TRUE, value |-> "FocusedFirst"]
      [] OTHER -> [ok |-> FALSE,
                   value |-> [kind |-> "Configuration", field |-> "sort_by",
                              value |-> str]]

\* The strings handed to the parser.
SortStrings ==
    {"number", "name", "focused-first", "Number", "NAME", "focused_first",
     "focusedfirst", "focused-first ", " number", "", "invalid"}

\* s.parse::<SortStrategy>()
ParseCall ==
    \E str \in SortStrings :
        conf' = [fn |-> "parse", str |-> str, result |-> from_str(str)]

\* strategy.to_string().parse::<SortStrategy>()
DisplayParseCall ==
    \E strategy \in SortStrategy :
        conf' = [fn |-> "display_parse", strategy |-> strategy,
                 str |-> to_string(strategy),
                 result |-> from_str(to_string(strategy))]

configFrame ==
    <<monitorVars, backoffVars, widgetVars, displayVars, ipcVars, streamVars,
      timers, arith, session>>

ConfigInit == Init /\ ~mgr_ipc /\ retry_max = 1

\* The functions take &self or a &str and keep nothing: one call is
\* followed from the initial state.
ConfigNext ==
    \/ conf.fn = "none" /\ ValidateCall /\ UNCHANGED configFrame
    \/ conf.fn = "none" /\ FormatCall /\ UNCHANGED configFrame
    \/ conf.fn = "none" /\ ParseCall /\ UNCHANGED configFrame
    \/ conf.fn = "none" /\ DisplayParseCall /\ UNCHANGED configFrame

ConfigSpec == ConfigInit /\ [][ConfigNext]_vars

\* ================================================================= metrics
\* metrics.rs: the widget update timers.  timers.now is the monotonic clock
\* in microseconds, timers.t the timers made so far with their start time
\* and their state (live; finishing: the body of finish() has run and self
\* is not dropped yet; ended: dropped), timers.micros the counter
\* widget_update_duration_micros, timers.adds the number of fetch_add calls
\* on it and timers.ended the number of timers dropped.
MaxTimers == 2
MaxClock == 3

metricsFrame ==
    <<monitorVars, backoffVars, widgetVars, displayVars, ipcVars, streamVars,
      conf, arith, session>>

\* metrics.rs:36-50  PerformanceMetrics::new
PerformanceMetrics_new ==
    /\ timers.pc = "none"
    /\ timers' = [pc |-> "run", now |-> 0, t |-> <<>>,
                  micros |-> 0, adds |-> 0, ended |-> 0]

\* Instant::now() moves on.
ClockTick ==
    /\ timers.pc = "run"
    /\ timers.now < MaxClock
    /\ timers' = [timers EXCEPT !.now = @ + 1]

\* metrics.rs:53-58
start_widget_update_timer ==
    /\ timers.pc = "run"
    /\ Len(timers.t) < MaxTimers
    /\ timers' = [timers EXCEPT
                    !.t = Append(@, [start |-> timers.now, st |-> "live"])]

\* metrics.rs:111-114  the body of finish(self): one fetch_add of the
\* elapsed time; self is still owned by the call.
WidgetUpdateTimer_finish(i) ==
    /\ timers.pc = "run"
    /\ timers.t[i].st = "live"
    /\ timers' = [timers EXCEPT
                    !.micros = @ + (timers.now - timers.t[i].start),
                    !.adds = @ + 1,
                    !.t[i].st = "finishing"]

\* metrics.rs:117-122  Drop::drop: runs when the timer goes out of scope,
\* and at the end of finish(self), which owns the timer and does not
\* forget it: one more fetch_add of the elapsed time.
WidgetUpdateTimer_drop(i) ==
    /\ timers.pc = "run"
    /\ timers.t[i].st \in {"live", "finishing"}
    /\ timers' = [timers EXCEPT
                    !.micros = @ + (timers.now - timers.t[i].start),
                    !.adds = @ + 1,
                    !.ended = @ + 1,
                    !.t[i].st = "ended"]

MetricsInit == Init /\ ~mgr_ipc /\ retry_max = 1

MetricsNext ==
    \/ PerformanceMetrics_new /\ UNCHANGED metricsFrame
    \/ ClockTick /\ UNCHANGED metricsFrame
    \/ start_widget_update_timer /\ UNCHANGED metricsFrame
    \/ \E i \in 1..MaxTimers :
          /\ timers.pc = "run" /\ i <= Len(timers.t)
          /\ WidgetUpdateTimer_finish(i) /\ UNCHANGED metricsFrame
    \/ \E i \in 1..MaxTimers :
          /\ timers.pc = "run" /\ i <= Len(timers.t)
          /\ WidgetUpdateTimer_drop(i) /\ UNCHANGED metricsFrame

MetricsSpec == MetricsInit /\ [][MetricsNext]_vars

\* ============================================================== arithmetic
\* The u64 arithmetic of the two backoff computations, under the
\* configuration that module initialisation passes on as it is
\* (lib.rs:281-291: retry_max is any u32, retry_base_delay_ms any u64).
\* A u64 is written [m, e] for m * 2^e, so that its bit length
\* bit_length(m) + e is known without the value being computed.
\* arith.overflow tells that the last computation left the range of u64;
\* a build with overflow checks panics there, a build without them goes on
\* with the wrapped value.
MaxArithRetryMax == 66
U64_BITS == 64

U64(m, e) == [m |-> m, e |-> e]

ArithRetryMaxes == {1, MAX_RETRY_MAX, U64_BITS, MaxArithRetryMax}

ArithBaseDelays ==
    {U64(0, 0), U64(1, 0), U64(DEFAULT_RETRY_BASE_DELAY_MS, 0),
     U64(MAX_RETRY_BASE_DELAY_MS, 0), U64(1, 60), U64(1, 61), U64(1, 63),
     U64(1023, 54)}

RECURSIVE bit_length(_)
bit_length(m) == IF m = 0 THEN 0 ELSE 1 + bit_length(m \div 2)

\* MAX_DELAY_MS has this many bits.
MAX_DELAY_BITS == bit_length(MAX_DELAY_MS)

\* 2_u64.pow(k) leaves u64 from k = 64 on.
pow_overflows(k) == k >= U64_BITS

\* b * 2^k, for a 2^k that is in range, leaves u64.
mul_overflows(b, k) == b.m # 0 /\ bit_length(b.m) + b.e + k > U64_BITS

\* base * 2_u64.pow(k) overflows in one of its two operations.
shift_overflows(b, k) == pow_overflows(k) \/ mul_overflows(b, k)

\* The low j bits of m.
low_bits(m, j) == IF j >= 31 THEN m ELSE m % pow2(j)

\* base * 2_u64.pow(k) in wrapping arithmetic: 2^k wraps to 0 from k = 64
\* on, and the product keeps its low 64 bits.
wrapping_shift(b, k) ==
    IF pow_overflows(k) \/ b.e + k >= U64_BITS THEN U64(0, 0)
    ELSE U64(low_bits(b.m, U64_BITS - (b.e + k)), b.e + k)

\* hyprland.rs:106-109  std::cmp::min(x, MAX_DELAY_MS), in milliseconds.
min_max_delay(x) ==
    IF x.m = 0 THEN 0
    ELSE IF bit_length(x.m) + x.e > MAX_DELAY_BITS THEN MAX_DELAY_MS
    ELSE IF x.m * pow2(x.e) < MAX_DELAY_MS THEN x.m * pow2(x.e)
    ELSE MAX_DELAY_MS

arithFrame ==
    <<monitorVars, backoffVars, widgetVars, displayVars, ipcVars, streamVars,
      conf, timers, session>>

\* lib.rs:281-291  init copies retry_max and retry_base_delay_ms from the
\* waybar configuration into ModuleConfig; validate() is not called.
ArithModuleInit ==
    /\ arith.pc = "none"
    /\ \E rm \in ArithRetryMaxes, b \in ArithBaseDelays :
          arith' = [pc |-> "listen", retry_max |-> rm,
                    retry_base_delay_ms |-> b, retry_count |-> 0,
                    consecutive_failures |-> 0, base_delay |-> 0,
                    delay |-> U64(0, 0), overflow |-> FALSE]

\* hyprland.rs:97-114  an attempt of listen_for_events failed.
ArithListenFailed ==
    /\ arith.pc = "listen"
    /\ LET count == arith.retry_count + 1
           k == count - 1
           b == arith.retry_base_delay_ms
       IN  IF count > arith.retry_max
           THEN arith' = [arith EXCEPT !.pc = "cycle_err",
                                       !.retry_count = count,
                                       !.overflow = FALSE]
           ELSE IF shift_overflows(b, k)
           THEN \/ arith' = [arith EXCEPT !.pc = "panicked",
                                          !.retry_count = count,
                                          !.overflow = TRUE]
                \/ arith' = [arith EXCEPT
                               !.retry_count = count,
                               !.base_delay = min_max_delay(wrapping_shift(b, k)),
                               !.overflow = TRUE]
           ELSE arith' = [arith EXCEPT
                            !.retry_count = count,
                            !.base_delay = min_max_delay(U64(b.m, b.e + k)),
                            !.overflow = FALSE]

\* hyprland.rs:91-95  an attempt returned an event; the next call of
\* listen_for_events starts with retry_count = 0.
ArithListenEvent ==
    /\ arith.pc = "listen"
    /\ arith.retry_count > 0
    /\ arith' = [arith EXCEPT !.retry_count = 0, !.overflow = FALSE]

\* monitor.rs:37-52, lib.rs:651-663  the cycle returned an error.
ArithCycleFailed ==
    /\ arith.pc \in {"listen", "cycle_err"}
    /\ arith.pc = "listen" => arith.retry_count = 0
    /\ LET failures == arith.consecutive_failures + 1
           k == failures - 1
           b == arith.retry_base_delay_ms
       IN  IF failures >= MAX_CONSECUTIVE_FAILURES
           THEN arith' = [arith EXCEPT !.pc = "failed",
                                       !.consecutive_failures = failures,
                                       !.overflow = FALSE]
           ELSE IF shift_overflows(b, k)
           THEN \/ arith' = [arith EXCEPT !.pc = "panicked",
                                          !.consecutive_failures = failures,
                                          !.overflow = TRUE]
                \/ arith' = [arith EXCEPT
                               !.pc = "listen", !.retry_count = 0,
                               !.consecutive_failures = failures,
                               !.delay = wrapping_shift(b, k),
                               !.overflow = TRUE]
           ELSE arith' = [arith EXCEPT
                            !.pc = "listen", !.retry_count = 0,
                            !.consecutive_failures = failures,
                            !.delay = U64(b.m, b.e + k),
                            !.overflow = FALSE]

ArithInit == Init /\ ~mgr_ipc /\ retry_max = 1

ArithNext ==
    \/ ArithModuleInit /\ UNCHANGED arithFrame
    \/ ArithListenFailed /\ UNCHANGED arithFrame
    \/ ArithListenEvent /\ UNCHANGED arithFrame
    \/ ArithCycleFailed /\ UNCHANGED arithFrame

ArithSpec == ArithInit /\ [][ArithNext]_vars

\* ================================================================= session
\* One monitor session against the compositor, without failures.
\* session.hypr counts the changes of the compositor's desktop state, each
\* announced by a vdesk>> line to the clients connected to the event socket
\* at that moment; session.connected and session.lines are the monitor's
\* event connection and the lines written to it and not read yet;
\* session.reply is the state the last j/printstate request was answered
\* with and session.store the state in the manager's store.
MaxEvents == 4
MaxPending == 3

sessionFrame ==
    <<monitorVars, backoffVars, widgetVars, displayVars, ipcVars, streamVars,
      conf, timers, arith>>

\* monitor.rs:75-88  the session starts; the store holds the state the
\* compositor is in.
SessionStart ==
    /\ session.pc = "none"
    /\ session' = [pc |-> "connect", hypr |-> 0, connected |-> FALSE,
                   lines |-> <<>>, reply |-> 0, store |-> 0]

\* The compositor changes its desktops and writes a vdesk>> line to the
\* event clients it has.
HyprEmitVdesk ==
    /\ session.pc # "none"
    /\ session.hypr < MaxEvents
    /\ session.connected => Len(session.lines) < MaxPending
    /\ session' = [session EXCEPT
                     !.hypr = @ + 1,
                     !.lines = IF session.connected THEN Append(@, "vdesk>>")
                               ELSE @]

\* The compositor writes a line about something else.
HyprEmitOther ==
    /\ session.pc # "none"
    /\ session.connected
    /\ Len(session.lines) < MaxPending
    /\ session' = [session EXCEPT !.lines = Append(@, "workspace>>")]

\* hyprland.rs:126-128  UnixStream::connect: a new connection, with
\* nothing written to it yet.
try_listen_connect ==
    /\ session.pc = "connect"
    /\ session' = [session EXCEPT !.pc = "reading", !.connected = TRUE,
                                  !.lines = <<>>]

\* hyprland.rs:130-135  next_line: a line of another kind is skipped; a
\* vdesk>> line is returned, and the stream and its reader, locals of the
\* call, are dropped with what was written behind the line.
next_line ==
    /\ session.pc = "reading"
    /\ session.lines # <<>>
    /\ session' =
          IF Head(session.lines) = "vdesk>>"
          THEN [session EXCEPT !.pc = "request", !.connected = FALSE,
                               !.lines = <<>>]
          ELSE [session EXCEPT !.lines = Tail(@)]

\* monitor.rs:96-97, hyprland.rs:140-142  update_state sends j/printstate
\* on the command socket.
update_state_request ==
    /\ session.pc = "request"
    /\ session' = [session EXCEPT !.pc = "reply_wait"]

\* The compositor answers the request with the state it is in.
HyprReplyState ==
    /\ session.pc = "reply_wait"
    /\ session' = [session EXCEPT !.pc = "apply", !.reply = session.hypr]

\* monitor.rs:97-103  the reply replaces the store and the snapshot is
\* sent; the loop calls listen_for_events again.
update_state_apply ==
    /\ session.pc = "apply"
    /\ session' = [session EXCEPT !.pc = "connect", !.store = session.reply]

MonitorStep ==
    \/ try_listen_connect
    \/ next_line
    \/ update_state_request
    \/ HyprReplyState
    \/ update_state_apply

SessionInit == Init /\ ~mgr_ipc /\ retry_max = 1

SessionNext ==
    \/ SessionStart /\ UNCHANGED sessionFrame
    \/ HyprEmitVdesk /\ UNCHANGED sessionFrame
    \/ HyprEmitOther /\ UNCHANGED sessionFrame
    \/ try_listen_connect /\ UNCHANGED sessionFrame
    \/ next_line /\ UNCHANGED sessionFrame
    \/ update_state_request /\ UNCHANGED sessionFrame
    \/ HyprReplyState /\ UNCHANGED sessionFrame
    \/ update_state_apply /\ UNCHANGED sessionFrame

\* The monitor task is scheduled whenever it can take a step and its
\* requests are answered; the compositor emits what it emits.
FairSessionSpec ==
    /\ SessionInit
    /\ [][SessionNext]_vars
    /\ WF_vars(MonitorStep /\ UNCHANGED sessionFrame)

\* ================================================================== claims
\* A refresh ends in an error: the manager lock is released without
\* update_state having run to its end.
RefreshErrorStep ==
    /\ pc \in {"upd", "fetch_wait"}
    /\ lock = "monitor"
    /\ lock' = "free"
    /\ pc' # "stopped"

\* The Err arm's decision for the cycle failure just counted.
CountedAndDecided ==
    /\ consecutive_failures' = consecutive_failures + 1
    /\ pc' = IF consecutive_failures' >= MAX_CONSECUTIVE_FAILURES
             THEN "failed" ELSE "outer_sleep"

\* C1: a refresh whose payload has a header line that does not parse leaves
\* the store's mapping exactly as it was and ends in an error (the refresh
\* goes no further than the parse).
C1_MalformedPayloadRejected ==
    [][(pc = "fetch_wait" /\ resp'.malformed)
          => (virtual_desktops' = virtual_desktops /\ RefreshErrorStep)]_vars

\* C2 as stated: after a successful update_state the stored ids are the ids
\* of the payload and every record is as the payload gave it, untouched by
\* the name queries.
C2_StoreIsLastPayload ==
    pc = "send" =>
        /\ DOMAIN virtual_desktops = resp.ids
        /\ \A i \in DOMAIN virtual_desktops :
              virtual_desktops[i] = VirtualDesktop_new(i, PayloadName)

\* C2, amended: after a successful update_state the stored ids are the ids
\* of the payload together with every id in 1..=5 whose printdesk reply had a
\* ':'; such a record carries the reply's name (it is created if the payload
\* had none), every other record is as the payload gave it.
C2_StoreIsPayloadPlusNames ==
    pc = "send" =>
        /\ DOMAIN virtual_desktops = resp.ids \cup named
        /\ \A i \in DOMAIN virtual_desktops :
              virtual_desktops[i] =
                  VirtualDesktop_new(i, IF i \in named THEN ReplyName
                                        ELSE PayloadName)

\* A successful update_state has created a record the payload did not have.
C2_Witness ==
    /\ pc = "send"
    /\ named \ resp.ids # {}
    /\ DOMAIN virtual_desktops # resp.ids

\* C3: the manager lock is never held while a command-socket round trip
\* (printstate or printdesk) is in progress.
C3_LockNotHeldDuringIpc ==
    ~(lock = "monitor" /\ pc \in {"fetch_wait", "name_wait"})

\* C4: whenever the lock is free, so that get_virtual_desktops can be called,
\* the mapping is one whole snapshot: the result of the last update_state
\* that ran to its end, never a cleared or partly named one.
C4_StoreWholeWhenUnlocked ==
    lock = "free" => virtual_desktops = committed

\* C5 as stated: the monitor loop has given up exactly when the number of
\* consecutive failures exceeds the configured retry_max.
C5_GiveUpAboveConfiguredMax ==
    (pc = "failed") <=> (consecutive_failures > retry_max)

\* C5, amended: the monitor loop has given up exactly when its failure
\* counter has reached the fixed MAX_CONSECUTIVE_FAILURES, whatever retry_max
\* is configured.
C5_GiveUpAtFixedMax ==
    /\ (pc = "failed") <=> (consecutive_failures >= MAX_CONSECUTIVE_FAILURES)
    /\ consecutive_failures <= MAX_CONSECUTIVE_FAILURES

\* The loop has given up on the fifth failure with retry_max configured as
\* MaxRetryMax.
C5_Witness ==
    /\ pc = "failed"
    /\ consecutive_failures = MAX_CONSECUTIVE_FAILURES
    /\ retry_max = MaxRetryMax

\* C6 as stated: once listen_for_events has exhausted its retries the monitor
\* has ended; no delay or further attempt is pending.
C6_ExhaustionIsTerminal ==
    last_error = "BrokenPipe" => pc = "failed"

\* C6, amended: when listen_for_events exhausts its retries the cycle fails
\* once: the failure is counted, the loop gives up only if the counter has
\* reached MAX_CONSECUTIVE_FAILURES, and otherwise the recovery delay leads
\* to a new cycle unless shutdown comes first.
C6_ExhaustionIsCounted ==
    [][/\ (last_error = "none" /\ last_error' = "BrokenPipe")
            => (retries_exceeded(retry_count', retry_max) /\ CountedAndDecided)
       /\ (pc = "outer_sleep" /\ last_error = "BrokenPipe" /\ pc' # pc)
            => pc' \in {"start", "stopped"}]_vars

\* listen_for_events has exhausted its retries and the loop is in its
\* recovery delay, about to start a new cycle.
C6_Witness ==
    /\ last_error = "BrokenPipe"
    /\ pc = "outer_sleep"
    /\ retry_count > retry_max

\* C7: when an event has been received, the per-listen retry_count and the
\* loop's consecutive_failures are both zero.
C7_CountersResetOnEvent ==
    pc = "lock" => (retry_count = 0 /\ consecutive_failures = 0)

\* C8 as stated: the third and every later failed refresh in a row is counted
\* as a failed cycle.
C8_ThreeApplyFailuresCounted ==
    [][(RefreshErrorStep /\ apply_fails' >= 3)
          => consecutive_failures' = consecutive_failures + 1]_vars

\* C8, amended: a failed refresh is never counted, however many came before
\* it in a row: consecutive_failures keeps its value and no backoff or
\* give-up decision is taken.
C8_ApplyFailuresNeverCounted ==
    [][RefreshErrorStep
          => /\ consecutive_failures' = consecutive_failures
             /\ pc' \notin {"outer_sleep", "failed"}
             /\ last_error' = last_error]_vars

\* Three refreshes in a row have failed and no failure has been counted.
C8_Witness ==
    /\ apply_fails >= 3
    /\ consecutive_failures = 0
    /\ pc = "connect"

\* C9: a failed refresh is one dropped update: the cycle goes on with the
\* next listen_for_events call, nothing is put on the channel, the event
\* connection and the store are as they were and the lock is released.
C9_FailedRefreshIsDropped ==
    [][RefreshErrorStep
          => /\ pc' = "connect"
             /\ chan' = chan
             /\ conn' = conn
             /\ retry_count' = 0
             /\ virtual_desktops' = virtual_desktops]_vars

\* One refresh has failed; the cycle waits for the next event with nothing
\* sent.
C9_Witness ==
    /\ apply_fails = 1
    /\ pc = "connect"
    /\ lock = "free"
    /\ chan = <<>>
    /\ rx_alive

\* C10 as stated: after with_config has failed the monitor has ended; no
\* delay or further attempt is pending.
C10_MissingSocketIsFatal ==
    last_error = "ConnectionRefused" => pc = "failed"

\* C10, amended: a failed with_config is a failed cycle like any other: it is
\* counted, the loop gives up only if the counter has reached
\* MAX_CONSECUTIVE_FAILURES, and otherwise the recovery delay leads to a new
\* construction attempt unless shutdown comes first.
C10_MissingSocketIsRetried ==
    [][/\ (last_error = "none" /\ last_error' = "ConnectionRefused")
            => (pc = "start" /\ CountedAndDecided)
       /\ (pc = "outer_sleep" /\ last_error = "ConnectionRefused" /\ pc' # pc)
            => pc' \in {"start", "stopped"}]_vars

\* with_config has failed and the loop is in its recovery delay, about to
\* construct the client again.
C10_Witness ==
    /\ last_error = "ConnectionRefused"
    /\ pc = "outer_sleep"

\* C11: once the shutdown signal has been sent while the monitor task was in
\* a backoff sleep (the outer recovery delay or the delay inside
\* listen_for_events), no socket operation follows: the task never again
\* leaves the point where it would connect to the event socket, except to
\* stop.
C11_NoConnectAfterSignalInBackoff ==
    [][(signal_in_backoff /\ pc = "connect")
          => pc' \in {"connect", "stopped"}]_vars

\* C12: once the shutdown signal has been sent, the monitor task eventually
\* returns, whatever await it is suspended at and whether or not the
\* compositor ever answers: it stops through the shutdown arm, or it has
\* already returned RetryExhausted.
C12_ShutdownLeadsToStopped ==
    shutdown ~> (pc \in {"stopped", "failed"})

\* The task has stopped on the shutdown signal from inside update_state,
\* leaving behind the round trip it was waiting for.
C12_Witness ==
    /\ shutdown
    /\ pc = "stopped"
    /\ virtual_desktops # committed

\* C13: the loop waits only after failures 1 to 4, for
\* retry_base_delay_ms * 2^(k-1) ms after the k-th (500, 1000, 2000, 4000 ms
\* with the default base), and on the 5th failure it has returned the error
\* with no wait.
C13_DoublingDelayUntilFifthFailure ==
    /\ consecutive_failures \in 0..MAX_CONSECUTIVE_FAILURES
    /\ pc = "outer_sleep" =>
          /\ consecutive_failures \in 1..4
          /\ recovery_delay =
                retry_base_delay_ms * 2^(consecutive_failures - 1)
          /\ retry_base_delay_ms = 500 =>
                recovery_delay = <<500, 1000, 2000, 4000>>[consecutive_failures]
    /\ pc = "failed" => (consecutive_failures = 5 /\ recovery_delay = 0)
    /\ recovery_delay # 0 => pc = "outer_sleep"

\* The loop waits 4000 ms after its fourth failure, with the default base.
C13_Witness ==
    /\ pc = "outer_sleep"
    /\ consecutive_failures = 4
    /\ recovery_delay = 4000

\* min(base * 2^(n-1), MAX_DELAY_MS) for a base of at least 500: from the
\* eighth attempt on the product is above the cap.
ExpectedDelay(base, n) ==
    IF n > 7 THEN MAX_DELAY_MS ELSE Min(base * 2^(n - 1), MAX_DELAY_MS)

\* C14: for every attempt in 1..MaxAttempt the delay slept before the retry
\* lies in [0.75 * expected, 1.25 * expected], where
\* expected = min(base * 2^(attempt-1), MAX_DELAY_MS); it is never negative
\* and never above 1.25 * MAX_DELAY_MS.
C14_DelayWithinQuarterOfExpected ==
    backoff.slept =>
        LET expected ==
                ExpectedDelay(retry_base_delay_ms, backoff.retry_count)
        IN  /\ 4 * backoff.delay_ms >= 3 * expected
            /\ 4 * backoff.delay_ms <= 5 * expected
            /\ backoff.delay_ms >= 0
            /\ 4 * backoff.delay_ms <= 5 * MAX_DELAY_MS

\* The 50th retry with base 1000 has slept the longest delay there is,
\* 1.25 times the cap.
C14_Witness ==
    /\ backoff.slept
    /\ backoff.retry_count = 50
    /\ retry_base_delay_ms = 1000
    /\ backoff.delay_ms = 37500

\* C15: the event connection is held for the whole session: while the event
\* just read is being applied (from the lock request to the send), the
\* connection it was read from is still open, so that the next event line
\* comes from the same connection.
C15_EventConnectionHeldAcrossEvents ==
    pc \in {"lock", "upd", "fetch_wait", "name_wait", "send"} => conn

C17_ContainerOrderIsTarget ==
    wlast.called =>
        /\ wm.container = Ids(wlast.visible)
        /\ wm.widget_order = Ids(wlast.visible)

\* The ids of widget_order and of new_order whose index differs.
Displaced(widget_order, new_order) ==
    {id \in Range(widget_order) \cap Range(new_order) :
        \E i \in 1..Len(widget_order), j \in 1..Len(new_order) :
            widget_order[i] = id /\ new_order[j] = id /\ i # j}

\* C18: the reorder step emits a move for an id exactly if the id is in the
\* old order and in the target order and its index differs, and the move
\* names the id's target index; so [1,2,3,4,5] to [1,3,2,5,4] moves
\* {2,3,4,5}, an unchanged order moves nothing, and the reversal of an
\* odd-length order leaves the middle id alone.
C18_MovesExactlyTheDisplaced ==
    /\ wlast.called =>
          /\ {m[1] : m \in wlast.ops.moved}
                 = Displaced(wlast.old_order, Ids(wlast.visible))
          /\ \A m \in wlast.ops.moved : Ids(wlast.visible)[m[2] + 1] = m[1]
    /\ {m[1] : m \in moves_needed(<<1, 2, 3, 4, 5>>, <<1, 3, 2, 5, 4>>)}
          = {2, 3, 4, 5}
    /\ \A o \in VisibleOrders :
          /\ moves_needed(o, o) = {}
          /\ Len(o) = 3 =>
                {m[1] : m \in moves_needed(o, <<o[3], o[2], o[1]>>)}
                    = {o[1], o[3]}

\* C18 witness: a call that moved some widgets and left another one, which
\* was rendered before and is still visible, where it was.
C18_Witness ==
    /\ wlast.ops.moved # {}
    /\ \E id \in Range(wlast.old_order) \cap Range(Ids(wlast.visible)) :
          id \notin {m[1] : m \in wlast.ops.moved}

\* C19: a call of update_widgets with the desktops of the call before it
\* removes, creates, updates and moves nothing, and leaves the manager and
\* the container as they were.
C19_SecondCallDoesNothing ==
    [][(wlast.called /\ wlast'.visible = wlast.visible)
          => (wlast'.ops = NoOps /\ wm' = wm)]_vars

\* C19 witness: a repeated call on a manager with two or more widgets, the
\* one with id 1 focused.
C19_Witness ==
    /\ wlast.repeated
    /\ wlast.ops = NoOps
    /\ Len(wm.container) >= 2
    /\ wm.widgets[1].focused

\* What a call with the desktop vdesk finds different in the widget w.
Differs(config, w, vdesk) ==
    [text |-> w.display_text
                 # format_virtual_desktop(config, vdesk.name, vdesk.id,
                                          vdesk.window_count),
     tooltip |-> w.tooltip_text
                    # format_tooltip(config, vdesk.name, vdesk.id,
                                     vdesk.window_count, vdesk.focused),
     focus |-> w.focused # vdesk.focused]

\* C20: for a desktop that had a widget before the call and is still
\* visible, the label is set only if the display text differs from the
\* widget's, the tooltip only if the tooltip text differs, the focus classes
\* only if the focus flag differs; update_if_changed returns true exactly if
\* one of the three differs, and a widget for which none does stays as it
\* was.
C20_OnlyWhatChangedIsSet ==
    [][\A vdesk \in Range(wlast'.visible) :
          vdesk.id \in DOMAIN wm.widgets =>
            \A d \in {Differs(wm.config, wm.widgets[vdesk.id], vdesk)} :
              LET id == vdesk.id
                  ops == wlast'.ops
              IN  /\ id \in ops.set_text => d.text
                  /\ id \in ops.set_tooltip => d.tooltip
                  /\ id \in ops.set_focus => d.focus
                  /\ id \in ops.updated <=> (d.text \/ d.tooltip \/ d.focus)
                  /\ ~(d.text \/ d.tooltip \/ d.focus) =>
                        /\ wm'.widgets[id] = wm.widgets[id]
                        /\ id \notin ops.set_text \cup ops.set_tooltip
                                      \cup ops.set_focus]_vars

\* C20 witness: a call that set the label of widget 1 and neither its
\* tooltip nor its focus classes, and found nothing to update in another
\* widget that was there before.
C20_Witness ==
    /\ 1 \in wlast.ops.set_text
    /\ 1 \notin wlast.ops.set_tooltip \cup wlast.ops.set_focus
    /\ 1 \in wlast.ops.updated
    /\ \E id \in Range(wlast.old_order) \ wlast.ops.updated :
          id \in Range(Ids(wlast.visible))

\* C21: in a call of update_widgets every id that was rendered and is not
\* in the new visible list is removed from the container, the widget map
\* and widget_order, and these removals are the first operations of the
\* call.
C21_DestroysComeFirst ==
    [][LET gone == Range(wm.container) \ Range(Ids(wlast'.visible))
           log == wlast'.ops.log
       IN  /\ wlast'.ops.removed = gone
           /\ \A id \in gone :
                 /\ id \notin Range(wm'.container)
                 /\ id \notin DOMAIN wm'.widgets
                 /\ id \notin Range(wm'.widget_order)
           /\ Len(log) >= Cardinality(gone)
           /\ \A i \in 1..Len(log) :
                 log[i] = "destroy" <=> i <= Cardinality(gone)]_vars

\* C21 witness: a call that removed a widget and then created one and
\* moved one.
C21_Witness ==
    /\ wlast.ops.removed # {}
    /\ wlast.ops.created # {}
    /\ wlast.ops.moved # {}
    /\ wlast.ops.log[1] = "destroy"
    /\ wlast.ops.removed \cap Range(wm.container) = {}

\* C23: the snapshot taken after a payload of records with distinct ids
\* was parsed holds every stored record once, in strictly ascending order
\* of id, and its records are the records of the payload, field by field.
C23_SnapshotIsThePayloadSorted ==
    disp.parsed =>
        LET snap == get_virtual_desktops(virtual_desktops)
        IN  /\ Len(snap) = Len(disp.payload)
            /\ Len(snap) = Cardinality(DOMAIN virtual_desktops)
            /\ \A i \in 1..(Len(snap) - 1) : snap[i].id < snap[i + 1].id
            /\ Range(snap) = Range(disp.payload)
            /\ Range(snap) = {virtual_desktops[k] : k \in DOMAIN virtual_desktops}

\* C23 witness: a payload that lists two desktops in descending order of
\* id, one of them focused with a window, has been parsed.
C23_Witness ==
    /\ disp.parsed
    /\ Len(disp.payload) >= 2
    /\ disp.payload[1].id > disp.payload[2].id
    /\ disp.payload[1].focused
    /\ disp.payload[1].window_count = 1
    /\ disp.payload[1].name # disp.payload[2].name

\* C24: at most one stored record is focused, and
\* get_focused_virtual_desktop has one possible result.
C24_AtMostOneFocused ==
    /\ Cardinality({k \in DOMAIN virtual_desktops :
                       virtual_desktops[k].focused}) <= 1
    /\ Cardinality(get_focused_virtual_desktop(virtual_desktops)) = 1

\* The sort key of a desktop under a strategy: its id; its name, then its
\* id; focused before unfocused, then its id.
SortKey(sort_by, vdesk) ==
    LET K == MaxStoreId + 1
        name_rank == IF vdesk.name = PayloadName THEN 0 ELSE 1
    IN  CASE sort_by = "number" -> vdesk.id
          [] sort_by = "name" -> name_rank * K + vdesk.id
          [] sort_by = "focused-first" ->
                 (IF vdesk.focused THEN 0 ELSE K) + vdesk.id

\* The ids of the desktops in ascending order of their sort key.
SortedByStrategy(sort_by, vdesks) ==
    CHOOSE o \in Orders({v.id : v \in vdesks}) :
        /\ Len(o) = Cardinality(vdesks)
        /\ \A i \in 1..(Len(o) - 1) :
             \A a, b \in vdesks :
                 a.id = o[i] /\ b.id = o[i + 1] =>
                     SortKey(sort_by, a) < SortKey(sort_by, b)

\* C22: the order of the desktops handed to update_widgets_incrementally is
\* the visible set sorted by the configured strategy: ascending id for
\* number, ascending name for name, the focused desktop first and then
\* ascending id for focused-first.
C22_TargetSortedByStrategy ==
    disp.shown =>
        disp.target =
            SortedByStrategy(
                wm.config.sort_by,
                {virtual_desktops[k] : k \in
                    {x \in DOMAIN virtual_desktops :
                        is_visible(wm.config, virtual_desktops[x])}})

\* C25: after update_display the widgets are those of the stored desktops
\* that are populated or focused, or of all of them under show_empty.
C25_RenderedIffVisible ==
    disp.shown =>
        LET visible_ids ==
                {virtual_desktops[k].id : k \in
                    {x \in DOMAIN virtual_desktops :
                        \/ virtual_desktops[x].populated
                        \/ virtual_desktops[x].focused
                        \/ wm.config.show_empty}}
        IN  /\ DOMAIN wm.widgets = visible_ids
            /\ Range(wm.container) = visible_ids

\* C25 witness: without show_empty, a displayed store holds an empty
\* unfocused desktop that has no widget and an empty focused one that has.
C25_Witness ==
    /\ disp.shown
    /\ ~wm.config.show_empty
    /\ \E k \in DOMAIN virtual_desktops :
          /\ ~virtual_desktops[k].populated
          /\ ~virtual_desktops[k].focused
          /\ k \notin DOMAIN wm.widgets
    /\ \E k \in DOMAIN virtual_desktops :
          /\ ~virtual_desktops[k].populated
          /\ virtual_desktops[k].focused
          /\ k \in DOMAIN wm.widgets

\* The line begins with the characters of "vdesk>>".
BeginsWithVdesk(line) ==
    \A i \in DOMAIN VDESK_PREFIX : Len(line) >= i /\ line[i] = VDESK_PREFIX[i]

\* C26: reading a line that does not start with "vdesk>>" changes nothing
\* but the position in the stream: no request on the command socket, no
\* write of the store and no send to the renderer follows from it, and
\* whatever the monitor did, it did for a line that starts with "vdesk>>".
C26_OtherLinesChangeNothing ==
    [][/\ (listen.pc = "reading" /\ listen.stream # <<>>
              /\ ~BeginsWithVdesk(Head(listen.stream)))
          => /\ listen' = [listen EXCEPT !.stream = Tail(@),
                                         !.seen = Append(@, Head(listen.stream))]
             /\ UNCHANGED <<monitorVars, widgetVars, displayVars>>
       /\ listen'.effects # listen.effects /\ listen'.effects # {}
          => listen.pc = "ok" /\ BeginsWithVdesk(listen.result)]_vars

\* C26 witness: after an earlier event was handled, a line that holds
\* "vdesk>>" but not at its start has been read and the call reads on.
C26_Witness ==
    /\ listen.pc = "reading"
    /\ listen.seen # <<>>
    /\ ~BeginsWithVdesk(listen.seen[Len(listen.seen)])
    /\ contains(listen.seen[Len(listen.seen)], VDESK_PREFIX)
    /\ listen.effects = {"request", "store", "send"}

\* C27: try_listen_for_events returns Ok only with a line it read, one that
\* starts with "vdesk>>"; when the stream ends before such a line the result
\* is the error "Event stream ended".
C27_EndOfStreamIsAnError ==
    /\ listen.pc = "ok" =>
          /\ listen.seen # <<>>
          /\ listen.result = listen.seen[Len(listen.seen)]
          /\ BeginsWithVdesk(listen.result)
    /\ (listen.pc \in {"ok", "err"}
          /\ \A i \in 1..Len(listen.seen) : ~BeginsWithVdesk(listen.seen[i]))
       => listen.pc = "err"
    /\ (listen.pc \in {"ok", "err"} /\ listen.stream = <<>>
          /\ listen.end = "eof" /\ listen.err # "connect"
          /\ \A i \in 1..Len(listen.seen) : ~BeginsWithVdesk(listen.seen[i]))
       => listen.pc = "err" /\ listen.err = "Event stream ended"

\* C27 witness: the stream ended after lines none of which was a vdesk
\* event, and the call returned the error.
C27_Witness ==
    /\ listen.pc = "err"
    /\ listen.err = "Event stream ended"
    /\ Len(listen.seen) >= 2
    /\ listen.end = "eof"

\* An instance id of 1 to 64 characters, each a letter, a digit, an
\* underscore or a hyphen.
ValidId(id) ==
    /\ Len(id.prefix) + id.pad \in 1..64
    /\ \A i \in 1..Len(id.prefix) : id.prefix[i] \in SignatureClass
    /\ id.pad > 0 => PadChar \in SignatureClass

\* C28: once with_config is past the validation, an instance id that is
\* empty, longer than 64 characters or holds a character outside
\* [a-zA-Z0-9_-] has been rejected with no path built and no existence
\* check made, and every other id has passed the validation.
C28_InvalidIdRejectedBeforePaths ==
    (ipc.sig # <<>> /\ ipc.pc # "validate") =>
        IF ValidId(ipc.sig[1])
        THEN ipc.err \notin {"empty signature", "unsafe characters"}
        ELSE /\ ipc.pc = "err"
             /\ ipc.err \in {"empty signature", "unsafe characters"}
             /\ ipc.paths = <<>>
             /\ ipc.checked = {}
             /\ ipc.client = <<>>

\* C28 witness: an id of sixty-five characters of the class was rejected.
C28_Witness ==
    /\ ipc.pc = "err"
    /\ ipc.sig # <<>>
    /\ Len(ipc.sig[1].prefix) + ipc.sig[1].pad = 65
    /\ \A i \in 1..Len(ipc.sig[1].prefix) :
          ipc.sig[1].prefix[i] \in SignatureClass
    /\ ipc.paths = <<>>

\* C29: for a valid instance id the construction succeeds if and only if
\* <runtime_dir>/hypr/<id>/.socket.sock and
\* <runtime_dir>/hypr/<id>/.socket2.sock both exist; a client is returned
\* with these paths on success and none on failure.
C29_SucceedsIffBothSocketsExist ==
    (ipc.pc \in {"ok", "err"} /\ ipc.sig # <<>> /\ ValidId(ipc.sig[1])) =>
        LET both ==
              /\ ipc.dir # <<>>
              /\ <<ipc.dir[1], HYPR, ipc.sig[1], SOCKET_SOCK>> \in ipc.fs
              /\ <<ipc.dir[1], HYPR, ipc.sig[1], SOCKET2_SOCK>> \in ipc.fs
        IN  /\ ipc.pc = "ok" <=> both
            /\ ipc.pc = "ok" =>
                  ipc.client =
                    <<[socket_path |->
                         <<ipc.dir[1], HYPR, ipc.sig[1], SOCKET_SOCK>>,
                       event_socket_path |->
                         <<ipc.dir[1], HYPR, ipc.sig[1], SOCKET2_SOCK>>]>>
            /\ ipc.pc = "err" => ipc.client = <<>>

\* C29 witness: for an id of sixty-four characters the command socket
\* exists and the event socket does not, and the construction failed.
C29_Witness ==
    /\ ipc.pc = "err"
    /\ ipc.sig # <<>>
    /\ ValidId(ipc.sig[1])
    /\ Len(ipc.sig[1].prefix) + ipc.sig[1].pad = 64
    /\ ipc.paths # <<>>
    /\ ipc.paths[1] \in ipc.fs
    /\ ipc.paths[2] \notin ipc.fs

\* C30: under a configuration that validate rejects, init has made no
\* client and read no state, and the monitor loop has not taken a step:
\* no connection, no payload, nothing in the channel.
C30_InvalidConfigStartsNothing ==
    validate(wm.config.format, retry_max, retry_base_delay_ms) # "" =>
        /\ pc = "start"
        /\ ~mgr_ipc
        /\ ~conn
        /\ virtual_desktops = EmptyMap
        /\ chan = <<>>

\* C31: validate accepts a configuration exactly when its format holds one
\* of the four placeholders, retry_max is 1 to 50 and the base delay is 1 to
\* 10000 ms, and every error names a field that is out of these bounds.
C31_ValidateAcceptsIffInBounds ==
    conf.fn = "validate" =>
        LET placeholder ==
                \E i \in 1..Len(conf.format) :
                    conf.format[i] \in
                        {"{name}", "{icon}", "{id}", "{window_count}"}
            retries == conf.retry_max >= 1 /\ conf.retry_max <= 50
            delay == conf.retry_base_delay_ms >= 1
                       /\ conf.retry_base_delay_ms <= 10000
        IN  /\ conf.result = "" <=> (placeholder /\ retries /\ delay)
            /\ conf.result = "format" => ~placeholder
            /\ conf.result = "retry_max" => ~retries
            /\ conf.result = "retry_base_delay_ms" => ~delay

\* What the replacements that follow {name} make of a piece.
AfterName(piece, icon, id, window_count) ==
    LET after_id(x) == IF x = "{window_count}" THEN ToString(window_count)
                       ELSE x
        after_icon(x) == IF x = "{id}" THEN ToString(id) ELSE after_id(x)
    IN  IF piece = "{icon}" THEN after_icon(icon) ELSE after_icon(piece)

\* The icon of a desktop: the entry of its id, else of its name, else none.
IconOf(icons, name, id) ==
    IF ToString(id) \in DOMAIN icons THEN icons[ToString(id)]
    ELSE IF name \in DOMAIN icons THEN icons[name]
    ELSE ""

\* C32 as stated: every placeholder of the format stands for its value, and
\* the tooltip holds the window count whatever the configuration.
C32_TooltipAlwaysCounts ==
    conf.fn = "format" =>
        /\ conf.display_text =
              [i \in 1..Len(conf.config.format) |->
                 LET piece == conf.config.format[i]
                 IN  CASE piece = "{name}" -> conf.name
                       [] piece = "{icon}" ->
                            IconOf(conf.config.format_icons, conf.name,
                                   conf.id)
                       [] piece = "{id}" -> ToString(conf.id)
                       [] piece = "{window_count}" ->
                            ToString(conf.window_count)
                       [] OTHER -> piece]
        /\ conf.tooltip_text =
              <<"Virtual Desktop ", ToString(conf.id), ": ", conf.name,
                " (", ToString(conf.window_count), " windows)">>
                  \o (IF conf.focused THEN <<" - focused">> ELSE <<>>)

\* C32, amended: the display text is the format after {name}, {icon}, {id}
\* and {window_count} were replaced in this order, each on the result of the
\* one before, the icon being the entry of the id, else of the name, else
\* empty; the tooltip is "Virtual Desktop <id>: <name>", then
\* " (<n> windows)" if show_window_count is set, then " - focused" if the
\* desktop is focused.
C32_SubstitutedInOrder ==
    conf.fn = "format" =>
        LET icon == IconOf(conf.config.format_icons, conf.name, conf.id)
        IN  /\ conf.display_text =
                  [i \in 1..Len(conf.config.format) |->
                     IF conf.config.format[i] = "{name}"
                     THEN AfterName(conf.name, icon, conf.id,
                                    conf.window_count)
                     ELSE AfterName(conf.config.format[i], icon, conf.id,
                                    conf.window_count)]
            /\ conf.tooltip_text =
                  <<"Virtual Desktop ", ToString(conf.id), ": ", conf.name>>
                      \o (IF conf.config.show_window_count
                          THEN <<" (", ToString(conf.window_count),
                                 " windows)">>
                          ELSE <<>>)
                      \o (IF conf.focused THEN <<" - focused">> ELSE <<>>)

\* C32 witness: the desktop 1 "Home" with 2 windows, focused, no icon, under
\* "{icon} {name} ({window_count})" without show_window_count.
C32_Witness ==
    /\ conf.fn = "format"
    /\ conf.name = "Home" /\ conf.id = 1 /\ conf.window_count = 2
    /\ conf.focused
    /\ ~conf.config.show_window_count
    /\ DOMAIN conf.config.format_icons = {}
    /\ conf.display_text = <<"", " ", "Home", " (", "2", ")">>
    /\ conf.tooltip_text =
          <<"Virtual Desktop ", "1", ": ", "Home", " - focused">>

\* C33: "number", "name" and "focused-first" parse to Number, Name and
\* FocusedFirst, every other string to a Configuration error for sort_by,
\* and the Display form of a strategy parses to that strategy.
C33_ParseIsClosedAndRoundTrips ==
    /\ conf.fn = "parse" =>
          /\ conf.str = "number" => conf.result = [ok |-> TRUE, value |-> "Number"]
          /\ conf.str = "name" => conf.result = [ok |-> TRUE, value |-> "Name"]
          /\ conf.str = "focused-first" =>
                conf.result = [ok |-> TRUE, value |-> "FocusedFirst"]
          /\ conf.str \notin {"number", "name", "focused-first"} =>
                /\ ~conf.result.ok
                /\ conf.result.value.kind = "Configuration"
                /\ conf.result.value.field = "sort_by"
          /\ conf.result.ok => conf.result.value \in SortStrategy
    /\ conf.fn = "display_parse" =>
          conf.result = [ok |-> TRUE, value |-> conf.strategy]

\* C33 witness: the Display form of FocusedFirst has been parsed back.
C33_Witness ==
    /\ conf.fn = "display_parse"
    /\ conf.strategy = "FocusedFirst"
    /\ conf.str = "focused-first"
    /\ conf.result.ok

\* C34: the loop returns Ok only on the shutdown signal and an error only
\* with the failure counter at MAX_CONSECUTIVE_FAILURES; once the signal is
\* sent, no failure that is processed afterwards makes it return an error;
\* and a loop that has returned stays returned.
C34_ShutdownNeverEndsInError ==
    [][/\ pc' = "stopped" => shutdown'
       /\ pc' = "failed" => consecutive_failures' >= MAX_CONSECUTIVE_FAILURES
       /\ (pc # "failed" /\ pc' = "failed") => ~shutdown
       /\ pc \in {"stopped", "failed"} => pc' = pc]_vars

\* C35: one call of listen_for_events makes at most retry_max + 1 attempts:
\* an attempt is running only with at most retry_max failed ones behind it;
\* a failed attempt is followed by the sleep if it was not the
\* (retry_max + 1)-th and by the error return, without a sleep, if it was;
\* the sleep is followed by the next attempt and by nothing else; an attempt
\* that reads an event returns it at once; and the error is returned only
\* when retry_max + 1 attempts have failed.
C35_AtMostRetryMaxPlusOneAttempts ==
    [][/\ pc \in {"connect", "reading"} => retry_count <= retry_max
       /\ (pc \in {"connect", "reading"} /\ retry_count' = retry_count + 1)
            => IF retry_count' <= retry_max
               THEN pc' = "inner_sleep" /\ last_error' = last_error
               ELSE /\ pc' \in {"outer_sleep", "failed"}
                    /\ last_error' = "BrokenPipe"
                    /\ retry_count' = retry_max + 1
       /\ (pc = "inner_sleep" /\ pc' # pc)
            => /\ pc' \in {"connect", "stopped"}
               /\ pc' = "connect" => retry_count' = retry_count
       /\ (pc # "connect" /\ pc' = "connect" /\ retry_count' > 0)
            => pc = "inner_sleep"
       /\ (pc = "reading" /\ pc' = "lock") => retry_count' = 0
       /\ (last_error # "BrokenPipe" /\ last_error' = "BrokenPipe")
            => retry_count' = retry_max + 1]_vars

\* C35 witness: with retry_max at MaxRetryMax, the call has returned its
\* error after MaxRetryMax + 1 failed attempts and the loop goes on.
C35_Witness ==
    /\ last_error = "BrokenPipe"
    /\ retry_max = MaxRetryMax
    /\ retry_count = MaxRetryMax + 1
    /\ consecutive_failures = 1

\* C37: whenever no timer is inside finish(), the number of additions to
\* widget_update_duration_micros equals the number of timers ended, whether
\* they ended through finish() or by being dropped.
C37_OneAdditionPerTimer ==
    (/\ timers.pc = "run"
     /\ \A i \in 1..Len(timers.t) : timers.t[i].st # "finishing")
        => timers.adds = timers.ended

\* C38: under every configuration passed by module initialisation, neither
\* retry_base_delay_ms * 2^(retry_count - 1) in listen_for_events, for
\* retry_count in 1..retry_max, nor
\* retry_base_delay_ms * 2^(consecutive_failures - 1) in the monitor loop
\* leaves the range of u64.
C38_BackoffNeverOverflows ==
    arith.pc # "none" => ~arith.overflow

\* The manager w is consistent with the visible list it was updated with:
\* the keys of the widget map, the members of widget_order and the visible
\* ids are one set, and widget_order is the id sequence of the list, each id
\* once.
ConsistentWith(w, visible_vdesks) ==
    /\ DOMAIN w.widgets = {w.widget_order[i] : i \in 1..Len(w.widget_order)}
    /\ DOMAIN w.widgets = {visible_vdesks[i].id : i \in 1..Len(visible_vdesks)}
    /\ Len(w.widget_order) = Len(visible_vdesks)
    /\ \A i \in 1..Len(visible_vdesks) :
          w.widget_order[i] = visible_vdesks[i].id
    /\ \A i, j \in 1..Len(w.widget_order) :
          i # j => w.widget_order[i] # w.widget_order[j]

\* C39: after every call of update_widgets with a list of unique ids, in any
\* sequence of calls, the manager is consistent with the list of the call;
\* and a call of update_widgets_incrementally on the manager so reached
\* leaves it consistent with its list too.
C39_MapOrderAndVisibleAgree ==
    /\ wlast.called => ConsistentWith(wm, wlast.visible)
    /\ \A visible_vdesks \in VisibleLists :
          ConsistentWith(update_widgets_incrementally(wm, visible_vdesks),
                         visible_vdesks)

\* C39 witness: a call that only removed, after which two widgets remain,
\* and from which a call that only adds is possible.
C39_Witness ==
    /\ wlast.called
    /\ wlast.ops.removed # {}
    /\ wlast.ops.created = {}
    /\ wlast.ops.moved = {}
    /\ Len(wm.widget_order) = 2
    /\ Len(wlast.old_order) = 2

\* C40: when the refresh has succeeded and the channel to the renderer is
\* closed, the step the monitor takes from the send (other than observing a
\* shutdown) ends the cycle with the Internal error: the store keeps the
\* refreshed state and the lock is released, the failure is counted once,
\* and the loop either sleeps for the recovery delay of that count or, when
\* the count has reached MAX_CONSECUTIVE_FAILURES, terminates; while the
\* Internal error is pending the store is not touched, and the sleep leads
\* to a new cycle or to the shutdown.
C40_ClosedChannelIsACountedFailure ==
    [][/\ (pc = "send" /\ ~rx_alive /\ pc' \notin {"send", "stopped"})
            => /\ last_error' = "Internal"
               /\ virtual_desktops' = virtual_desktops
               /\ committed' = virtual_desktops
               /\ lock' = "free"
               /\ chan' = chan
               /\ consecutive_failures' = consecutive_failures + 1
               /\ IF consecutive_failures' >= MAX_CONSECUTIVE_FAILURES
                  THEN pc' = "failed"
                  ELSE /\ pc' = "outer_sleep"
                       /\ recovery_delay' =
                             retry_base_delay_ms
                               * (2 ^ (consecutive_failures' - 1))
       /\ (last_error' = "Internal" /\ last_error # "Internal")
            => (pc = "send" /\ ~rx_alive)
       /\ last_error = "Internal"
            => /\ virtual_desktops' = virtual_desktops
               /\ committed' = committed
               /\ (pc = "outer_sleep" /\ pc' # pc)
                    => pc' \in {"start", "stopped"}
               /\ pc = "failed" => pc' = "failed"]_vars

\* C40 witness: the closed channel made the fifth failure, on a store that
\* holds desktops, and the loop has terminated.
C40_Witness ==
    /\ pc = "failed"
    /\ last_error = "Internal"
    /\ ~rx_alive
    /\ consecutive_failures = MAX_CONSECUTIVE_FAILURES
    /\ committed # EmptyMap
    /\ committed = virtual_desktops

\* C36: every vdesk>> event emitted during a monitor session is eventually
\* followed by a refresh whose state request was issued after the event: once
\* the compositor has made its v-th change, the store eventually holds a
\* state that includes it.
C36_EveryEventLeadsToARefresh ==
    \A v \in 1..MaxEvents :
        (session.pc # "none" /\ session.hypr = v)
            ~> (session.pc # "none" /\ session.store >= v)

====
